---- MODULE Spec2Model ----
(***************************************************************************)
(* State-machine model of the Antigravity Claude proxy:                    *)
(*   - the Project Resolver      (getProject, clearProjectCache),          *)
(*   - the Endpoint Dispatcher   (sendMessage, refreshAndGetProject),      *)
(*   - the Stream Synthesizer    (sendMessageStream),                      *)
(*   - the HTTP handlers that share the project cache with them            *)
(*     (POST /v1/messages, GET /health, POST /refresh-token).              *)
(* One step of the model is one run of JavaScript between two awaits.      *)
(***************************************************************************)
EXTENDS Integers, Sequences, FiniteSets, TLC

(***************************************************************************)
(* Bounds of the model.                                                    *)
(***************************************************************************)
\* Largest token version the credential store hands out.
MaxToken == 3
\* Longest text of a backend text part (in characters).
MaxTextLen == 41
\* Most parts in one backend candidate.
MaxParts == 3

(***************************************************************************)
(* Program constants.                                                      *)
(***************************************************************************)
ANTIGRAVITY_ENDPOINT_FALLBACKS == <<"daily", "autopush", "prod">>

DEFAULT_PROJECT_ID == "rising-fact-p41fc"

STREAMING_CHUNK_SIZE == 20

\* The value of an empty variable (JavaScript null / undefined).
Null == "null"

NumEndpoints == Len(ANTIGRAVITY_ENDPOINT_FALLBACKS)

\* Project ids a discovery call can return.
Projects == {"projA", "projB"}

\* The callers of getProject: the POST /v1/messages handler (through
\* sendMessage) and the GET /health handler.
Callers == {"msg", "health"}

VARIABLES
    \* ---- process-wide state
    cachedProject,  \* cloudcode-client.js: let cachedProject
    storeToken,     \* version of the token the credential store holds
    \* ---- POST /v1/messages: the handler and sendMessage's locals
    hpc,            \* position of the handler
    isStream,       \* req.body.stream
    token,          \* sendMessage: let token
    project,        \* sendMessage: let project
    payload,        \* sendMessage: const payload
    epIdx,          \* index of the for-of loop over the endpoints
    lastError,      \* sendMessage: let lastError
    rfToken,        \* refreshAndGetProject: const token
    result,         \* what sendMessage returned (fullResponse)
    thrown,         \* what sendMessage threw
    \* ---- getProject: one frame per caller
    gp,
    \* ---- sendMessageStream: the generator's locals and what it yielded
    events,
    blockIndex,
    bpos,           \* position of the for-of loop over fullResponse.content
    off,            \* the chunk loop's i
    \* ---- GET /health and POST /refresh-token
    hlpc,
    rtpc,
    \* ---- POST /v1/messages: the request body and the response
    messages,       \* kind of req.body.messages
    res,            \* what the handler has answered
    disconnected,   \* the client has closed the connection of the request
    \* ---- a tool's input_schema and what sanitizeSchema made of it
    schema,
    sanitized,
    \* ---- req.body of a request and the payload buildCloudCodeRequest built
    body,
    wrapped,
    \* ---- history of the current dispatch (not program state)
    calls,          \* the generation calls issued, in order
    refreshCalls,   \* number of refreshToken() calls of the dispatch
    gpRet           \* per caller: the last return of getProject

sharedVars == <<cachedProject, storeToken>>
smVars == <<hpc, isStream, token, project, payload, epIdx, lastError, rfToken,
            result, thrown, calls, refreshCalls>>
ssVars == <<events, blockIndex, bpos, off>>
actorVars == <<hlpc, rtpc>>
reqVars == <<messages, res, disconnected>>
toolVars == <<schema, sanitized, body, wrapped>>
vars == <<cachedProject, storeToken, hpc, isStream, token, project, payload,
          epIdx, lastError, rfToken, result, thrown, gp, events, blockIndex,
          bpos, off, hlpc, rtpc, messages, res, disconnected, schema,
          sanitized, body, wrapped, calls, refreshCalls, gpRet>>

(***************************************************************************)
(* The credential collaborator (token-extractor.js): getToken() resolves   *)
(* to the token the store holds, refreshToken() / forceRefresh() replace   *)
(* it by a fresh one; each may fail with "credential unavailable".         *)
(***************************************************************************)
GetTokenOutcomes == {"ok", "fail"}

RefreshOutcomes == {"ok", "fail"}

\* The store after a successful refresh.
RefreshedStore(t) == t + 1

(***************************************************************************)
(* Errors.  An Error object is modelled by its kind, the HTTP status it    *)
(* quotes (0: none), the endpoint at which it was recorded and the text of *)
(* its message.  A text is modelled by the set of the phrases parseError   *)
(* looks for that occur in it; "reset" stands for a match of               *)
(* /quota will reset after (\d+h\d+m\d+s|\d+s)/i.                           *)
(***************************************************************************)
NoText == {}

NoError == [kind |-> "none", status |-> 0, host |-> Null, text |-> NoText]

\* An error whose message is a fixed prefix followed by the text t.
MkErrorText(k, s, h, t) == [kind |-> k, status |-> s, host |-> h, text |-> t]

\* An error whose message holds none of the phrases.
MkError(k, s, h) == MkErrorText(k, s, h, NoText)

\* new Error('All endpoints failed')
AllEndpointsFailed ==
    MkErrorText("AllEndpointsFailed", 0, Null, {"All endpoints failed"})

\* The rejection of getToken() / refreshToken().
CredentialUnavailable(h) == MkError("CredentialUnavailable", 0, h)

\* No schema: the variable holds nothing.
NoSchema == [t |-> "undefined", v |-> <<>>]

\* undefined: a field the JSON body does not have.
Undefined == NoSchema

(***************************************************************************)
(* Project Resolver: getProject(token).                                    *)
(***************************************************************************)
\* The values data.cloudaicompanionProject can take in a loadCodeAssist body:
\* absent, a string (possibly empty), an object with or without an id.
CompanionValues ==
    {[t |-> "absent", v |-> Null], [t |-> "string", v |-> ""],
     [t |-> "object", v |-> Null]}
    \cup [t : {"string", "object"}, v : Projects]

\* What one loadCodeAssist call can come back with: an error (fetch or
\* response.json() rejects), a non-OK status, or an OK response with a body.
DiscResponses ==
    {[kind |-> k, cp |-> [t |-> "absent", v |-> Null]] :
        k \in {"error", "notok"}}
    \cup [kind : {"ok"}, cp : CompanionValues]

\* The discovery responses met inside a dispatch.
DispatchDisc ==
    {[kind |-> "error", cp |-> [t |-> "absent", v |-> Null]],
     [kind |-> "ok", cp |-> [t |-> "absent", v |-> Null]],
     [kind |-> "ok", cp |-> [t |-> "string", v |-> "projA"]],
     [kind |-> "ok", cp |-> [t |-> "object", v |-> "projB"]]}

\* Faulty variant: the { id } form of the project is not understood.
ExtractProjectStringOnly(cp) ==
    IF cp.t = "string" /\ cp.v # "" THEN cp.v ELSE Null

\* Lines 66-76: the project id a parsed body yields, Null when it has none.
ExtractProject(cp) ==
    IF cp.t = "string" /\ cp.v # "" THEN cp.v
    ELSE IF cp.t = "object" /\ cp.v # Null THEN cp.v
    ELSE Null

\* Lines 58-81: what one discovery response yields.
DiscYield(r) == IF r.kind = "ok" THEN ExtractProject(r.cp) ELSE Null

\* Faulty variant: the cached value is never used.
CacheHitNever(cache) == FALSE

\* Line 33: if (cachedProject)
CacheHit(cache) == cache # Null

IdleFrame ==
    [pc |-> "idle", token |-> 0, idx |-> 0, queried |-> <<>>, before |-> Null]

\* History: a return of getProject (its value, the cache before the call
\* and after the return, the token passed, the number of discovery calls
\* made and, until the caller's next step, those calls and their responses).
NoReturn ==
    [called |-> FALSE, val |-> Null, cacheBefore |-> Null,
     cacheAfter |-> Null, queried |-> <<>>, n |-> 0, token |-> 0]

MkReturn(v, before, after, q, tok) ==
    [called |-> TRUE, val |-> v, cacheBefore |-> before,
     cacheAfter |-> after, queried |-> q, n |-> Len(q), token |-> tok]

\* The caller "msg" moves on: the responses of its last discovery are
\* forgotten.
Forget(ret) == [ret EXCEPT !["msg"].queried = <<>>]

\* A discovery in flight: the loop of lines 40-82 waiting for endpoint idx.
FetchFrame(tok, i, q, before) ==
    [pc |-> "fetch", token |-> tok, idx |-> i, queried |-> q, before |-> before]

\* Line 40: the endpoint the loop visits after endpoint i.
NextDiscoveryIdx(i) == i + 1

\* Faulty variant: clearProjectCache leaves a project in the cache.
NotCleared == DEFAULT_PROJECT_ID

\* Line 93: clearProjectCache()
ClearedCache == Null

(***************************************************************************)
(* Backend data, and the Response Converter (convertGoogleToAnthropic).    *)
(***************************************************************************)
\* A text of n characters; the characters differ along the text.
Txt(n) == [i \in 1..n |-> i % 7]

\* A part.text that is defined but is no string (JSON null).
NullText == <<-1>>

TextLens ==
    {0, 1, STREAMING_CHUNK_SIZE, STREAMING_CHUNK_SIZE + 1, MaxTextLen}

TextPart(t, th) ==
    [k |-> "text", text |-> t, thought |-> th, id |-> Null, name |-> Null,
     args |-> Null]

CallPart(id, args) ==
    [k |-> "functionCall", text |-> <<>>, thought |-> FALSE, id |-> id,
     name |-> "toolA", args |-> args]

\* A part that is neither text nor a function call (inlineData, ...).
OtherPart ==
    [k |-> "other", text |-> <<>>, thought |-> FALSE, id |-> Null,
     name |-> Null, args |-> Null]

Parts ==
    {TextPart(Txt(n), FALSE) : n \in TextLens}
    \cup {TextPart(Txt(1), TRUE), TextPart(NullText, FALSE), OtherPart}
    \cup {CallPart(Null, "argsA"), CallPart("call_1", Null)}

FinishReasons == {Null, "STOP", "MAX_TOKENS", "TOOL_USE", "OTHER"}

MkData(ps, fr) == [parts |-> ps, finishReason |-> fr]

\* toolu_<24 random hex digits>
GeneratedToolId == "toolu_generated"

\* part.functionCall.args || {}
EmptyObject == "{}"

TextBlock(t) ==
    [type |-> "text", text |-> t, id |-> Null, name |-> Null, input |-> Null]

ToolUseBlock(id, name, input) ==
    [type |-> "tool_use", text |-> <<>>, id |-> id, name |-> name,
     input |-> input]

\* Lines 333-354: the content blocks of the parts, in order.
RECURSIVE ConvertParts(_)
ConvertParts(ps) ==
    IF ps = <<>> THEN <<>>
    ELSE LET part == Head(ps)
             rest == ConvertParts(Tail(ps))
         IN  IF part.k = "text"
             THEN IF part.thought THEN rest
                  ELSE <<TextBlock(part.text)>> \o rest
             ELSE IF part.k = "functionCall"
             THEN <<ToolUseBlock(
                      IF part.id # Null THEN part.id ELSE GeneratedToolId,
                      part.name,
                      IF part.args # Null THEN part.args ELSE EmptyObject)>>
                  \o rest
             ELSE rest

\* Lines 352, 363: toolCallCounter after the loop.
ToolCallCount(ps) == Cardinality({i \in 1..Len(ps) : ps[i].k = "functionCall"})

\* Lines 357-365
StopReason(fr, toolCallCounter) ==
    IF fr = "STOP" THEN "end_turn"
    ELSE IF fr = "MAX_TOKENS" THEN "max_tokens"
    ELSE IF fr = "TOOL_USE" \/ toolCallCounter > 0 THEN "tool_use"
    ELSE "end_turn"

NoResponse == [content |-> <<>>, stop_reason |-> Null]

\* Faulty variant: the content is returned as converted, even when empty.
convertWithoutFallback(data) ==
    [content |-> ConvertParts(data.parts),
     stop_reason |-> StopReason(data.finishReason, ToolCallCount(data.parts))]

\* Lines 320-383
convertGoogleToAnthropic(data) ==
    LET anthropicContent == ConvertParts(data.parts)
    IN  [content |-> IF Len(anthropicContent) > 0 THEN anthropicContent
                     ELSE <<TextBlock(<<>>)>>,
         stop_reason |-> StopReason(data.finishReason,
                                    ToolCallCount(data.parts))]

(***************************************************************************)
(* Endpoint Dispatcher: sendMessage(anthropicRequest).                     *)
(***************************************************************************)
\* The backend responses a generation call of a dispatch can return.
DispatchData ==
    {MkData(<<TextPart(Txt(STREAMING_CHUNK_SIZE + 1), FALSE)>>, "STOP"),
     MkData(<<CallPart(Null, "argsA")>>, Null),
     MkData(<<TextPart(NullText, FALSE)>>, "STOP")}

NoData == MkData(<<>>, Null)

Statuses == {200, 304, 401, 429, 500}

\* The texts of the body of a non-OK response (response.text()).
ErrorTexts(status) ==
    IF status = 429
    THEN {NoText, {"429", "RESOURCE_EXHAUSTED", "reset"}, {"401", "429"}}
    ELSE IF status = 500 THEN {NoText, {"UNAUTHENTICATED"}}
    ELSE {NoText}

\* What one generateContent call can come back with: a transport error
\* (fetch rejects), a status, or status 200 with a body that does not parse.
GenResponses ==
    {[kind |-> "neterr", status |-> 0, data |-> NoData, text |-> NoText],
     [kind |-> "badjson", status |-> 200, data |-> NoData, text |-> NoText]}
    \cup UNION {{[kind |-> "http", status |-> st, data |-> NoData, text |-> t] :
                    t \in ErrorTexts(st)} : st \in Statuses \ {200}}
    \cup {[kind |-> "http", status |-> 200, data |-> d, text |-> NoText] :
             d \in DispatchData}

\* response.ok
ResponseOk(status) == status >= 200 /\ status <= 299

\* Faulty variant: a rate-limited response takes the refresh path too.
IsAuthErrorOrRateLimit(status) == status \in {401, 429}

\* Line 174
IsAuthError(status) == status = 401

\* Line 183
IsRateLimited(status) == status = 429

\* Line 189
IsApiError(status) == status >= 400

NoPayload == [project |-> Null]

\* Faulty variant: the payload is built without the project.
buildCloudCodeRequestNoProject(projectId) == [project |-> Null]

\* Lines 111-132: the payload's project field is the project id passed in.
buildCloudCodeRequest(projectId) == [project |-> projectId]

\* Faulty variant: the payload keeps the project it was built with.
WithProjectStale(pl, p) == pl

\* Line 178: payload.project = project
WithProject(pl, p) == [pl EXCEPT !.project = p]

\* Faulty variant: the loop stays at its endpoint.
NextEndpointIdxSame(i) == i

\* Faulty variant: the loop skips an endpoint.
NextEndpointIdxSkip(i) == i + 2

\* Line 155: the endpoint the for-of loop visits after endpoint i.
NextEndpointIdx(i) == i + 1

\* Faulty variant: the generic error is thrown whatever was recorded.
ThrownAlwaysGeneric(le) == AllEndpointsFailed

\* Line 206: throw lastError || new Error('All endpoints failed')
ThrownAfterLoop(le) == IF le # NoError THEN le ELSE AllEndpointsFailed

\* History: a generation call (where it went, the token and the payload's
\* project it carried, and what came back).
MkCall(i, tok, pl, r) ==
    [host |-> ANTIGRAVITY_ENDPOINT_FALLBACKS[i], token |-> tok,
     project |-> pl.project, kind |-> r.kind, status |-> r.status,
     data |-> r.data, text |-> r.text]

\* The loop moves on (continue, or the end of the catch block) with
\* lastError = le; after the last endpoint the statement of line 206 runs.
Advance(le) ==
    LET n == NextEndpointIdx(epIdx)
    IN  /\ lastError' = le
        /\ epIdx' = n
        /\ IF n <= NumEndpoints
           THEN hpc' = "sm_fetch" /\ thrown' = thrown
           ELSE hpc' = "sm_thrown" /\ thrown' = ThrownAfterLoop(le)

\* Faulty variant: an error caught in the loop body ends the dispatch.
CatchAbort(err) ==
    /\ lastError' = err
    /\ epIdx' = epIdx
    /\ hpc' = "sm_thrown"
    /\ thrown' = err

\* Lines 200-203: the catch block of the loop body.
Catch(err) == Advance(err)

\* The continuation of sendMessage when getProject returns p: after line
\* 142 (site "init") or inside refreshAndGetProject (site "refresh", lines
\* 104-105 and 176-179).
MsgProjectResolved(site, tok, p) ==
    IF site = "init"
    THEN /\ token' = tok
         /\ project' = p
         /\ payload' = buildCloudCodeRequest(p)
         /\ epIdx' = 1
         /\ hpc' = "sm_fetch"
         /\ UNCHANGED <<isStream, lastError, rfToken, result, thrown, calls,
                        refreshCalls>>
    ELSE /\ token' = tok
         /\ project' = p
         /\ payload' = WithProject(payload, p)
         /\ Advance(lastError)
         /\ UNCHANGED <<isStream, rfToken, result, calls, refreshCalls>>

\* The continuation of the caller of getProject.
Resolved(c, site, tok, p) ==
    IF c = "msg"
    THEN MsgProjectResolved(site, tok, p) 
         /\ UNCHANGED <<ssVars, reqVars, toolVars, actorVars>>
    ELSE /\ hlpc' = "idle"
         /\ UNCHANGED <<smVars, ssVars, reqVars, toolVars, rtpc>>

\* The caller of getProject waits for the discovery.
Waiting(c, site, tok) ==
    IF c = "msg"
    THEN /\ hpc' = (IF site = "init" THEN "sm_getProject" ELSE "rf_getProject")
         /\ IF site = "init"
            THEN token' = tok /\ rfToken' = rfToken
            ELSE rfToken' = tok /\ token' = token
         /\ UNCHANGED <<isStream, project, payload, epIdx, lastError, result,
                        thrown, calls, refreshCalls, ssVars, reqVars,
                        toolVars, actorVars>>
    ELSE /\ hlpc' = "getProject"
         /\ UNCHANGED <<smVars, ssVars, reqVars, toolVars, rtpc>>

\* getProject(tok) called by c with the cache holding `cache`: lines 33-35
\* return the cached value at once, else the discovery loop starts.
CallGetProject(c, site, tok, cache) ==
    IF CacheHit(cache)
    THEN /\ cachedProject' = cache
         /\ gp' = gp
         /\ gpRet' = [gpRet EXCEPT ![c] = MkReturn(cache, cache, cache, <<>>, tok)]
         /\ Resolved(c, site, tok, cache)
    ELSE /\ cachedProject' = cache
         /\ gp' = [gp EXCEPT ![c] = FetchFrame(tok, 1, <<>>, cache)]
         /\ gpRet' = gpRet
         /\ Waiting(c, site, tok)

\* Lines 42-87: the loadCodeAssist call of caller c comes back with one of
\* the responses D.
GpFetchOn(c, D) ==
    /\ gp[c].pc = "fetch"
    /\ \E r \in D :
         LET f == gp[c]
             y == DiscYield(r)
             q == Append(f.queried,
                         [host |-> ANTIGRAVITY_ENDPOINT_FALLBACKS[f.idx],
                          resp |-> r])
             n == NextDiscoveryIdx(f.idx)
             site == IF hpc = "sm_getProject" THEN "init" ELSE "refresh"
             v == IF y # Null THEN y ELSE DEFAULT_PROJECT_ID
         IN  IF y = Null /\ n <= NumEndpoints
             THEN /\ gp' = [gp EXCEPT ![c] = FetchFrame(f.token, n, q, f.before)]
                  /\ UNCHANGED <<sharedVars, smVars, ssVars, reqVars,
                                 toolVars, actorVars, gpRet>>
             ELSE /\ cachedProject' = v
                  /\ gp' = [gp EXCEPT ![c] = IdleFrame]
                  /\ gpRet' = [gpRet EXCEPT
                                 ![c] = MkReturn(v, f.before, v, q, f.token)]
                  /\ storeToken' = storeToken
                  /\ Resolved(c, site, f.token, v)

\* A discovery call of a dispatch comes back.
GpFetchMsg == GpFetchOn("msg", DispatchDisc)

\* The discovery call of GET /health comes back.
GpFetchHealth == GpFetchOn("health", DiscResponses)

\* Line 138: await getToken(), then line 142 calls getProject(token).
SmGetToken ==
    /\ hpc = "sm_getToken"
    /\ \E o \in GetTokenOutcomes :
         IF o = "ok"
         THEN /\ CallGetProject("msg", "init", storeToken, cachedProject)
              /\ storeToken' = storeToken
         ELSE /\ hpc' = "sm_thrown"
              /\ thrown' = CredentialUnavailable(Null)
              /\ UNCHANGED <<sharedVars, isStream, token, project, payload,
                             epIdx, lastError, rfToken, result, calls,
                             refreshCalls, gp, gpRet, ssVars, reqVars,
                             toolVars, actorVars>>

\* Lines 157-203: the generateContent call to the current endpoint is
\* issued and comes back with one of the responses R.
SmFetchOn(R) ==
    /\ hpc = "sm_fetch"
    /\ \E r \in R :
         LET ep == ANTIGRAVITY_ENDPOINT_FALLBACKS[epIdx]
         IN  /\ calls' = Append(calls, MkCall(epIdx, token, payload, r))
             /\ IF r.kind = "neterr"
                THEN /\ Catch(MkError("FetchFailed", 0, ep))
                     /\ UNCHANGED <<result, refreshCalls>>
                ELSE IF r.kind = "badjson"
                THEN /\ Catch(MkError("BodyError", r.status, ep))
                     /\ UNCHANGED <<result, refreshCalls>>
                ELSE IF ~ResponseOk(r.status) /\ IsAuthError(r.status)
                THEN /\ hpc' = "rf_refreshToken"
                     /\ refreshCalls' = refreshCalls + 1
                     /\ UNCHANGED <<epIdx, lastError, thrown, result>>
                ELSE IF ~ResponseOk(r.status) /\ IsRateLimited(r.status)
                THEN /\ Advance(MkErrorText("RateLimited", r.status, ep, r.text))
                     /\ UNCHANGED <<result, refreshCalls>>
                ELSE IF ~ResponseOk(r.status) /\ IsApiError(r.status)
                THEN /\ Advance(MkErrorText("ApiError", r.status, ep, r.text))
                     /\ UNCHANGED <<result, refreshCalls>>
                ELSE IF ~ResponseOk(r.status)
                THEN \* response.json() after response.text(): the body is used
                     /\ Catch(MkError("BodyError", r.status, ep))
                     /\ UNCHANGED <<result, refreshCalls>>
                ELSE /\ result' = convertGoogleToAnthropic(r.data)
                     /\ hpc' = "sm_returned"
                     /\ UNCHANGED <<epIdx, lastError, thrown, refreshCalls>>
    /\ gpRet' = Forget(gpRet)
    /\ UNCHANGED <<sharedVars, isStream, token, project, payload, rfToken, gp,
                   ssVars, reqVars, toolVars, actorVars>>

SmFetch == SmFetchOn(GenResponses)

\* Line 101: await refreshToken()
RfRefreshToken ==
    /\ hpc = "rf_refreshToken"
    /\ \E o \in RefreshOutcomes :
         IF o = "ok"
         THEN /\ storeToken < MaxToken
              /\ storeToken' = RefreshedStore(storeToken)
              /\ hpc' = "rf_getToken"
              /\ UNCHANGED <<epIdx, lastError, thrown>>
         ELSE /\ Catch(CredentialUnavailable(ANTIGRAVITY_ENDPOINT_FALLBACKS[epIdx]))
              /\ storeToken' = storeToken
    /\ UNCHANGED <<cachedProject, isStream, token, project, payload, rfToken,
                   result, calls, refreshCalls, gp, gpRet, ssVars, reqVars,
                             toolVars, actorVars>>

\* Lines 102-104: await getToken(); clearProjectCache(); getProject(token)
RfGetToken ==
    /\ hpc = "rf_getToken"
    /\ \E o \in GetTokenOutcomes :
         IF o = "ok"
         THEN /\ CallGetProject("msg", "refresh", storeToken, ClearedCache)
              /\ storeToken' = storeToken
         ELSE /\ Catch(CredentialUnavailable(ANTIGRAVITY_ENDPOINT_FALLBACKS[epIdx]))
              /\ UNCHANGED <<sharedVars, isStream, token, project, payload,
                             rfToken, result, calls, refreshCalls, gp, gpRet,
                             ssVars, reqVars, toolVars, actorVars>>

(***************************************************************************)
(* Stream Synthesizer: sendMessageStream(anthropicRequest).  Every yield   *)
(* of the generator is one step; `events` is what it has yielded so far.   *)
(***************************************************************************)
MkEvent(type, index, kind, text, data) ==
    [type |-> type, index |-> index, kind |-> kind, text |-> text,
     data |-> data]

\* The index field of the events that carry none.
NoIndex == -1

Min(a, b) == IF a < b THEN a ELSE b

\* text.slice(i, j) on a string, 0 <= i <= j
Slice(text, i, j) == SubSeq(text, i + 1, Min(j, Len(text)))

\* Faulty variant: every chunk is one character short.
ChunkShort(text, i) == Slice(text, i, i + STREAMING_CHUNK_SIZE - 1)

\* Line 250: the chunk that starts at offset i.
Chunk(text, i) == Slice(text, i, i + STREAMING_CHUNK_SIZE)

\* Line 249: i += STREAMING_CHUNK_SIZE
NextOffset(i) == i + STREAMING_CHUNK_SIZE

\* Faulty variant: the block index is not incremented.
NextBlockIndexStuck(i) == i

\* Lines 264, 295: blockIndex++
NextBlockIndex(i) == i + 1

\* Line 285: JSON.stringify(block.input)
Stringify(input) == <<"json", input>>

\* What a step of the generator leaves alone.
StreamFrame ==
    UNCHANGED <<sharedVars, isStream, token, project, payload, epIdx,
                lastError, rfToken, result, thrown, calls, refreshCalls, gp,
                gpRet, actorVars, reqVars, toolVars>>

\* Faulty variant: message_start is yielded while the generation call is
\* awaited.
SsMessageStartEarly ==
    /\ hpc = "sm_fetch"
    /\ isStream
    /\ events = <<>>
    /\ events' = Append(events, MkEvent("message_start", NoIndex, Null, <<>>, Null))
    /\ UNCHANGED <<hpc, blockIndex, bpos, off>>
    /\ StreamFrame

\* Lines 221-233: yield message_start
SsMessageStart ==
    /\ hpc = "sm_returned"
    /\ isStream
    /\ events' = Append(events, MkEvent("message_start", NoIndex, Null, <<>>, Null))
    /\ blockIndex' = 0
    /\ bpos' = 1
    /\ off' = 0
    /\ hpc' = "ss_block"
    /\ StreamFrame

\* Lines 237-244 and 266-277: the loop over the content reaches a block and
\* yields its content_block_start; a block of another type yields nothing.
SsBlockStart ==
    /\ hpc = "ss_block"
    /\ bpos <= Len(result.content)
    /\ LET block == result.content[bpos]
       IN  IF block.type = "text"
           THEN /\ events' = Append(events,
                      MkEvent("content_block_start", blockIndex, "text", <<>>, Null))
                /\ hpc' = "ss_text"
                /\ off' = 0
                /\ UNCHANGED <<bpos, blockIndex>>
           ELSE IF block.type = "tool_use"
           THEN /\ events' = Append(events,
                      MkEvent("content_block_start", blockIndex, "tool_use",
                              <<>>, Null))
                /\ hpc' = "ss_tool_delta"
                /\ UNCHANGED <<bpos, blockIndex, off>>
           ELSE /\ bpos' = bpos + 1
                /\ UNCHANGED <<events, hpc, blockIndex, off>>
    /\ StreamFrame

\* Line 247-249: text.length of a text that is no string throws.
SsTextThrow ==
    /\ hpc = "ss_text"
    /\ result.content[bpos].text = NullText
    /\ hpc' = "ss_thrown"
    /\ UNCHANGED <<events, blockIndex, bpos, off>>
    /\ StreamFrame

\* Lines 249-256: the chunk loop yields the next content_block_delta.
SsTextDelta ==
    /\ hpc = "ss_text"
    /\ LET text == result.content[bpos].text
       IN  /\ text # NullText
           /\ off < Len(text)
           /\ events' = Append(events,
                  MkEvent("content_block_delta", blockIndex, "text_delta",
                          Chunk(text, off), Null))
    /\ off' = NextOffset(off)
    /\ UNCHANGED <<hpc, blockIndex, bpos>>
    /\ StreamFrame

\* Lines 259-264: after the chunk loop, content_block_stop; blockIndex++
SsTextStop ==
    /\ hpc = "ss_text"
    /\ LET text == result.content[bpos].text
       IN  text # NullText /\ ~(off < Len(text))
    /\ events' = Append(events,
           MkEvent("content_block_stop", blockIndex, Null, <<>>, Null))
    /\ blockIndex' = NextBlockIndex(blockIndex)
    /\ bpos' = bpos + 1
    /\ hpc' = "ss_block"
    /\ off' = off
    /\ StreamFrame

\* Lines 280-287: the single delta of a tool_use block.
SsToolDelta ==
    /\ hpc = "ss_tool_delta"
    /\ events' = Append(events,
           MkEvent("content_block_delta", blockIndex, "input_json_delta", <<>>,
                   Stringify(result.content[bpos].input)))
    /\ hpc' = "ss_tool_stop"
    /\ UNCHANGED <<blockIndex, bpos, off>>
    /\ StreamFrame

\* Lines 290-295: content_block_stop of a tool_use block; blockIndex++
SsToolStop ==
    /\ hpc = "ss_tool_stop"
    /\ events' = Append(events,
           MkEvent("content_block_stop", blockIndex, Null, <<>>, Null))
    /\ blockIndex' = NextBlockIndex(blockIndex)
    /\ bpos' = bpos + 1
    /\ hpc' = "ss_block"
    /\ off' = off
    /\ StreamFrame

\* Faulty variant: message_stop follows the last block with no message_delta.
SsMessageDeltaSkipped ==
    /\ hpc = "ss_block"
    /\ bpos > Len(result.content)
    /\ hpc' = "ss_stop"
    /\ UNCHANGED <<events, blockIndex, bpos, off>>
    /\ StreamFrame

\* Lines 300-307: yield message_delta
SsMessageDelta ==
    /\ hpc = "ss_block"
    /\ bpos > Len(result.content)
    /\ events' = Append(events,
           MkEvent("message_delta", NoIndex, Null, <<>>, result.stop_reason))
    /\ hpc' = "ss_stop"
    /\ UNCHANGED <<blockIndex, bpos, off>>
    /\ StreamFrame

\* Line 310: yield message_stop
SsMessageStop ==
    /\ hpc = "ss_stop"
    /\ events' = Append(events, MkEvent("message_stop", NoIndex, Null, <<>>, Null))
    /\ hpc' = "ss_done"
    /\ UNCHANGED <<blockIndex, bpos, off>>
    /\ StreamFrame

(***************************************************************************)
(* The handlers of the HTTP server.                                        *)
(***************************************************************************)
\* req.body.messages: absent (or another falsy value), a value that is no
\* array, or an array.
MessagesKinds == {"missing", "notArray", "array"}

\* Faulty variant: any truthy messages value is accepted.
IsValidMessagesTruthy(m) == m # "missing"

\* Line 137: !(!messages || !Array.isArray(messages))
IsValidMessages(m) == m = "array"

\* Lines 21-53: parseError classifies an error by the phrases its message
\* holds, in this order.
parseError(error) ==
    LET m == error.text
    IN  IF "401" \in m \/ "UNAUTHENTICATED" \in m
        THEN [errorType |-> "authentication_error", statusCode |-> 401,
              errorMessage |-> "authentication_failed"]
        ELSE IF "429" \in m \/ "RESOURCE_EXHAUSTED" \in m
        THEN [errorType |-> "rate_limit_error", statusCode |-> 429,
              errorMessage |-> IF "reset" \in m THEN "rate_limited_reset_after"
                               ELSE "rate_limited_wait"]
        ELSE IF "invalid_request_error" \in m \/ "INVALID_ARGUMENT" \in m
        THEN [errorType |-> "invalid_request_error", statusCode |-> 400,
              errorMessage |-> "backend_message"]
        ELSE IF "All endpoints failed" \in m
        THEN [errorType |-> "api_error", statusCode |-> 503,
              errorMessage |-> "unable_to_connect"]
        ELSE IF "PERMISSION_DENIED" \in m
        THEN [errorType |-> "permission_error", statusCode |-> 403,
              errorMessage |-> "permission_denied"]
        ELSE [errorType |-> "api_error", statusCode |-> 500,
              errorMessage |-> "error_message"]

\* The response of the handler: whether it is complete, its status, its
\* type ("message", "stream" or the error type), its message, the events
\* written to it and the recovery the handler made before sending it.
NoRes ==
    [sent |-> FALSE, status |-> 0, type |-> Null, message |-> Null,
     written |-> <<>>, recovery |-> "none"]

\* res.status(status).json({ type: 'error', error: { type, message } })
ErrorResponse(status, type, message, recovery) ==
    [sent |-> TRUE, status |-> status, type |-> type, message |-> message,
     written |-> <<>>, recovery |-> recovery]

\* Lines 138-144
BadRequest ==
    ErrorResponse(400, "invalid_request_error", "messages_required", "none")

\* Line 193: res.json(response)
JsonResponse ==
    [sent |-> TRUE, status |-> 200, type |-> "message", message |-> Null,
     written |-> <<>>, recovery |-> "none"]

\* Line 174: what res.write puts on the stream for the events yielded.
Written(evs) == [i \in 1..Len(evs) |-> [type |-> evs[i].type, error |-> Null]]

\* Lines 166-176 and 183-187: the event stream, ended.
StreamResponse(w, message) ==
    [sent |-> TRUE, status |-> 200, type |-> "stream", message |-> message,
     written |-> w, recovery |-> "none"]

\* The TypeError of text.length on a text that is null.
SynthesisError == MkError("TypeError", 0, Null)

\* POST /v1/messages arrives, its messages field of a kind in M and its
\* stream field in S.  Lines 137-145 answer 400 when messages is no array;
\* else sendMessage (line 192) or sendMessageStream (line 173) starts and
\* awaits getToken().
ReceiveOn(M, S) ==
    /\ hpc = "idle"
    /\ disconnected' = FALSE
    /\ \E m \in M, st \in S :
         /\ messages' = m
         /\ IF IsValidMessages(m)
            THEN /\ isStream' = st
                 /\ hpc' = "sm_getToken"
                 /\ res' = NoRes
            ELSE /\ isStream' = isStream
                 /\ hpc' = "idle"
                 /\ res' = BadRequest
    /\ UNCHANGED <<sharedVars, token, project, payload, epIdx, lastError,
                   rfToken, result, thrown, calls, refreshCalls, gp, gpRet,
                   ssVars, toolVars, actorVars>>

Receive == ReceiveOn(MessagesKinds, BOOLEAN)

\* The request is over: its locals and its history are dropped.
Finished ==
    /\ isStream' = FALSE
    /\ token' = 0
    /\ project' = Null
    /\ payload' = NoPayload
    /\ epIdx' = 0
    /\ lastError' = NoError
    /\ rfToken' = 0
    /\ result' = NoResponse
    /\ thrown' = NoError
    /\ calls' = <<>>
    /\ refreshCalls' = 0
    /\ gpRet' = [gpRet EXCEPT !["msg"] = NoReturn]
    /\ events' = <<>>
    /\ blockIndex' = 0
    /\ bpos' = 0
    /\ off' = 0
    /\ messages' = messages
    /\ disconnected' = FALSE

\* The response is completed: res.json(response) (line 193), or res.end()
\* after the last event (line 176).
Respond ==
    /\ \/ hpc = "sm_returned" /\ ~isStream
       \/ hpc = "ss_done"
    /\ hpc' = "idle"
    /\ res' = IF isStream THEN StreamResponse(Written(events), Null)
              ELSE JsonResponse
    /\ Finished
    /\ UNCHANGED <<sharedVars, gp, actorVars, toolVars>>

\* The client of a streaming request closes the connection before the
\* response is ended.  The handler registers no listener for it and tests
\* nothing before it writes (lines 164-188).
Disconnect ==
    /\ isStream
    /\ hpc # "idle"
    /\ ~disconnected
    /\ disconnected' = TRUE
    /\ UNCHANGED <<sharedVars, smVars, ssVars, messages, res, gp, gpRet,
                   actorVars, toolVars>>

\* Faulty variant: the stream is ended with no error event.
StreamErrorSilent ==
    /\ isStream
    /\ hpc \in {"sm_thrown", "ss_thrown"}
    /\ res' = StreamResponse(Written(events), Null)
    /\ hpc' = "idle"
    /\ Finished
    /\ UNCHANGED <<sharedVars, gp, actorVars, toolVars>>

\* Lines 178-188: the streaming path's catch block writes one error event,
\* classified by parseError, and ends the response.
StreamError ==
    /\ isStream
    /\ hpc \in {"sm_thrown", "ss_thrown"}
    /\ LET pe == parseError(IF hpc = "ss_thrown" THEN SynthesisError
                            ELSE thrown)
       IN  res' = StreamResponse(
                      Append(Written(events),
                             [type |-> "error", error |-> pe.errorType]),
                      pe.errorMessage)
    /\ hpc' = "idle"
    /\ Finished
    /\ UNCHANGED <<sharedVars, gp, actorVars, toolVars>>

\* Faulty variant: every error is followed by the recovery.
MessageErrorAlwaysRecover ==
    /\ ~isStream
    /\ hpc = "sm_thrown"
    /\ LET pe == parseError(thrown)
       IN  res' = [ErrorResponse(pe.statusCode, pe.errorType,
                                 pe.errorMessage, "pending")
                     EXCEPT !.sent = FALSE]
    /\ cachedProject' = ClearedCache
    /\ hpc' = "h_forceRefresh"
    /\ Finished
    /\ UNCHANGED <<storeToken, gp, actorVars, toolVars>>

\* Lines 196-219: the catch block of the non-streaming path.  An error
\* classified authentication_error clears the cache and awaits
\* forceRefresh(); any other error is answered at once.
MessageError ==
    /\ ~isStream
    /\ hpc = "sm_thrown"
    /\ LET pe == parseError(thrown)
       IN  IF pe.errorType = "authentication_error"
           THEN /\ cachedProject' = ClearedCache
                /\ hpc' = "h_forceRefresh"
                /\ res' = [ErrorResponse(pe.statusCode, pe.errorType,
                                         pe.errorMessage, "pending")
                             EXCEPT !.sent = FALSE]
           ELSE /\ cachedProject' = cachedProject
                /\ hpc' = "idle"
                /\ res' = ErrorResponse(pe.statusCode, pe.errorType,
                                        pe.errorMessage, "none")
    /\ Finished
    /\ UNCHANGED <<storeToken, gp, actorVars, toolVars>>

\* Faulty variant: no response is sent when forceRefresh() rejects.
MessageErrorRefreshSilent ==
    /\ hpc = "h_forceRefresh"
    /\ \E o \in RefreshOutcomes :
         IF o = "ok"
         THEN /\ storeToken < MaxToken
              /\ storeToken' = RefreshedStore(storeToken)
              /\ res' = [res EXCEPT !.sent = TRUE, !.recovery = "refreshed",
                                    !.message = "refreshed_please_retry"]
         ELSE /\ storeToken' = storeToken
              /\ res' = [res EXCEPT !.recovery = "failed"]
    /\ hpc' = "idle"
    /\ UNCHANGED <<cachedProject, isStream, token, project, payload, epIdx,
                   lastError, rfToken, result, thrown, calls, refreshCalls, gp,
                   gpRet, ssVars, messages, disconnected, toolVars,
                   actorVars>>

\* Lines 206-219: forceRefresh() resolves or rejects, and the error
\* response is sent with the message that tells which.
MessageErrorRefresh ==
    /\ hpc = "h_forceRefresh"
    /\ \E o \in RefreshOutcomes :
         IF o = "ok"
         THEN /\ storeToken < MaxToken
              /\ storeToken' = RefreshedStore(storeToken)
              /\ res' = [res EXCEPT !.sent = TRUE, !.recovery = "refreshed",
                                    !.message = "refreshed_please_retry"]
         ELSE /\ storeToken' = storeToken
              /\ res' = [res EXCEPT !.sent = TRUE, !.recovery = "failed",
                                    !.message = "could_not_refresh"]
    /\ hpc' = "idle"
    /\ UNCHANGED <<cachedProject, isStream, token, project, payload, epIdx,
                   lastError, rfToken, result, thrown, calls, refreshCalls, gp,
                   gpRet, ssVars, messages, disconnected, toolVars,
                   actorVars>>

\* GET /health, lines 66-69: await getToken(), then getProject(token).
Health ==
    /\ hlpc = "idle"
    /\ \E o \in GetTokenOutcomes :
         IF o = "ok"
         THEN /\ CallGetProject("health", "health", storeToken, cachedProject)
              /\ storeToken' = storeToken
         ELSE UNCHANGED vars

\* POST /refresh-token, line 95: clearProjectCache(), then forceRefresh()
\* is awaited.
RtClear ==
    /\ rtpc = "idle"
    /\ cachedProject' = ClearedCache
    /\ rtpc' = "forceRefresh"
    /\ UNCHANGED <<storeToken, smVars, ssVars, reqVars, toolVars, gp, gpRet,
                   hlpc>>

\* POST /refresh-token, line 96: forceRefresh() resolves or rejects.
RtForceRefresh ==
    /\ rtpc = "forceRefresh"
    /\ \E o \in RefreshOutcomes :
         IF o = "ok"
         THEN storeToken < MaxToken /\ storeToken' = RefreshedStore(storeToken)
         ELSE storeToken' = storeToken
    /\ rtpc' = "idle"
    /\ UNCHANGED <<cachedProject, smVars, ssVars, reqVars, toolVars, gp,
                   gpRet, hlpc>>

(***************************************************************************)
(* The Schema Sanitizer (sanitizeSchema) and the tool declarations of the  *)
(* Request Converter.  A JSON value is a record [t, v]: a scalar with its  *)
(* text, an object with a function from its keys, an array with a          *)
(* sequence.                                                               *)
(***************************************************************************)
Scalar(x) == [t |-> "scalar", v |-> x]

Obj(f) == [t |-> "obj", v |-> f]

Arr(q) == [t |-> "arr", v |-> q]

EmptyObj == Obj(<<>>)

\* The scalars JavaScript takes for false in a condition.
Falsy == {"null", "false", "0", ""}

\* A string whose characters matter: the sequence of its characters.
Str(chars) == [t |-> "string", v |-> chars]

Truthy(x) ==
    IF x.t = "undefined" THEN FALSE
    ELSE IF x.t = "string" THEN x.v # <<>>
    ELSE x.t # "scalar" \/ x.v \notin Falsy

\* typeof x === 'object' for a truthy x: objects and arrays.
IsObjectType(x) == x.t \in {"obj", "arr"}

\* Lines 244-277
UNSUPPORTED_FIELDS ==
    {"$schema", "additionalProperties", "default", "anyOf", "allOf", "oneOf",
     "minLength", "maxLength", "pattern", "format", "minimum", "maximum",
     "exclusiveMinimum", "exclusiveMaximum", "minItems", "maxItems",
     "uniqueItems", "minProperties", "maxProperties", "$id", "$ref", "$defs",
     "definitions", "patternProperties", "unevaluatedProperties",
     "unevaluatedItems", "if", "then", "else", "not", "contentEncoding",
     "contentMediaType"}

\* Object.entries(x): the keys of an object, the indices of an array.
Entries(x) ==
    IF x.t = "arr"
    THEN [k \in {ToString(i - 1) : i \in 1..Len(x.v)} |->
             x.v[CHOOSE i \in 1..Len(x.v) : ToString(i - 1) = k]]
    ELSE x.v

\* value.anyOf || value.allOf || value.oneOf of an object (line 295)
IsComplex(x) ==
    \E k \in {"anyOf", "allOf", "oneOf"} : k \in DOMAIN x.v /\ Truthy(x.v[k])

RECURSIVE sanitizeSchema(_)
\* Lines 238-310
sanitizeSchema(s) ==
    IF ~Truthy(s) \/ ~IsObjectType(s)
    THEN s
    ELSE LET e == Entries(s)
             field(key, value) ==
                 IF key = "properties" /\ Truthy(value) /\ IsObjectType(value)
                 THEN Obj([p \in DOMAIN Entries(value) |->
                              sanitizeSchema(Entries(value)[p])])
                 ELSE IF key = "items" /\ Truthy(value) /\ IsObjectType(value)
                 THEN IF value.t = "arr"
                      THEN Arr([i \in 1..Len(value.v) |->
                                   sanitizeSchema(value.v[i])])
                      ELSE IF IsComplex(value)
                      THEN EmptyObj
                      ELSE sanitizeSchema(value)
                 ELSE IF value.t = "obj"
                 THEN sanitizeSchema(value)
                 ELSE value
         IN  Obj([key \in {k \in DOMAIN e : k \notin UNSUPPORTED_FIELDS} |->
                     field(key, e[key])])

\* The default of a tool that declares no schema (lines 213-218)
DefaultSchema == Obj("type" :> Scalar("object"))

\* The nesting depth of the schemas of a tool declaration.
MaxSchemaDepth == 2

\* Schemas without a sub-schema: a type alone, a type with denylisted
\* keywords, a boolean schema.
LeafSchemas ==
    {Obj("type" :> Scalar("string")),
     Obj("type" :> Scalar("string") @@ "format" :> Scalar("date")),
     Obj("type" :> Scalar("number") @@ "minimum" :> Scalar("0")
         @@ "description" :> Scalar("text")),
     Scalar("true")}

\* The schemas that hold the sub-schema x: under properties (also under a
\* property that is named as a keyword), under items as one schema and as
\* an array of schemas, under items with a combinator, under another
\* object-valued field, under an array-valued field, and under a denylisted
\* keyword.
Nest(x) ==
    {Obj("type" :> Scalar("object") @@ "properties" :> Obj("name" :> x)),
     Obj("type" :> Scalar("object") @@ "properties" :> Obj("format" :> x)),
     Obj("type" :> Scalar("array") @@ "items" :> x),
     Obj("type" :> Scalar("array") @@ "items" :> Arr(<<x>>)),
     Obj("type" :> Scalar("array")
         @@ "items" :> Obj("anyOf" :> Arr(<<x>>))),
     Obj("type" :> Scalar("array") @@ "contains" :> x),
     Obj("type" :> Scalar("array") @@ "prefixItems" :> Arr(<<x>>)),
     Obj("type" :> Scalar("object") @@ "additionalProperties" :> x)}

RECURSIVE SchemasOfDepth(_)
SchemasOfDepth(n) ==
    IF n = 0
    THEN LeafSchemas
    ELSE LET S == SchemasOfDepth(n - 1)
         IN  S \cup UNION {Nest(x) : x \in S}

\* tool.input_schema of a tool declaration; NoSchema when it declares none.
ToolSchemas == SchemasOfDepth(MaxSchemaDepth) \cup {NoSchema}

\* Lines 205-225: the parameters of a function declaration.
SanitizeTool ==
    /\ sanitized = NoSchema
    /\ sanitized' = sanitizeSchema(IF schema = NoSchema THEN DefaultSchema
                                   ELSE schema)
    /\ UNCHANGED <<cachedProject, storeToken, smVars, ssVars, reqVars, gp,
                   gpRet, hlpc, rtpc, schema, body, wrapped>>

(***************************************************************************)
(* The Request Converter (convertAnthropicToGoogle) and the Request        *)
(* Builder (buildCloudCodeRequest), from the body of POST /v1/messages.    *)
(***************************************************************************)
\* x.k, and x?.k of an x that is undefined
Get(x, k) == IF x.t = "obj" /\ k \in DOMAIN x.v THEN x.v[k] ELSE Undefined

\* a || b || ... || d: the first truthy value, or the last one.
RECURSIVE FirstTruthy(_)
FirstTruthy(xs) ==
    IF Len(xs) = 1 \/ Truthy(Head(xs)) THEN Head(xs) ELSE FirstTruthy(Tail(xs))

Letters ==
    {"a", "b", "c", "d", "e", "f", "g", "h", "i", "j", "k", "l", "m", "n", "o",
     "p", "q", "r", "s", "t", "u", "v", "w", "x", "y", "z", "A", "B", "C", "D",
     "E", "F", "G", "H", "I", "J", "K", "L", "M", "N", "O", "P", "Q", "R", "S",
     "T", "U", "V", "W", "X", "Y", "Z"}

Digits == {"0", "1", "2", "3", "4", "5", "6", "7", "8", "9"}

\* The characters /[^a-zA-Z0-9_-]/ does not match (line 221)
NameChars == Letters \cup Digits \cup {"_", "-"}

\* .slice(0, 64) (line 221)
NAME_LIMIT == 64

\* The text of a scalar that is no string.
ScalarText(v) ==
    IF v = "7" THEN <<"7">>
    ELSE IF v = "true" THEN <<"t", "r", "u", "e">>
    ELSE <<"n", "u", "l", "l">>

RECURSIVE JoinComma(_)
RECURSIVE JsString(_)
\* String(x): a string is itself, an array is its elements joined by ","
\* (null and undefined elements as the empty string), an object is
\* "[object Object]".
JsString(x) ==
    IF x.t = "string" THEN x.v
    ELSE IF x.t = "arr" THEN JoinComma(x.v)
    ELSE IF x.t = "obj"
    THEN <<"[", "o", "b", "j", "e", "c", "t", " ", "O", "b", "j", "e", "c",
           "t", "]">>
    ELSE IF x.t = "undefined"
    THEN <<"u", "n", "d", "e", "f", "i", "n", "e", "d">>
    ELSE ScalarText(x.v)

JoinComma(xs) ==
    IF xs = <<>> THEN <<>>
    ELSE LET h == Head(xs)
             e == IF h.t = "undefined" \/ (h.t = "scalar" /\ h.v = "null")
                  THEN <<>> ELSE JsString(h)
         IN  IF Len(xs) = 1 THEN e ELSE e \o <<",">> \o JoinComma(Tail(xs))

\* Line 221: String(name).replace(/[^a-zA-Z0-9_-]/g, '_').slice(0, 64)
SanitizeName(name) ==
    LET str == JsString(name)
        replaced == [i \in 1..Len(str) |->
                        IF str[i] \in NameChars THEN str[i] ELSE "_"]
    IN  Str(SubSeq(replaced, 1, IF Len(str) < NAME_LIMIT THEN Len(str)
                                ELSE NAME_LIMIT))

\* `tool-${idx}` (line 207)
Placeholder(idx) == Str(<<"t", "o", "o", "l", "-", ToString(idx)>>)

\* Line 207: the name of a tool, from where it is found.
ToolName(tool, idx) ==
    FirstTruthy(<<Get(tool, "name"), Get(Get(tool, "function"), "name"),
                  Get(Get(tool, "custom"), "name"), Placeholder(idx)>>)

\* Lines 213-218
ToolSchema(tool) ==
    FirstTruthy(<<Get(tool, "input_schema"),
                  Get(Get(tool, "function"), "input_schema"),
                  Get(Get(tool, "function"), "parameters"),
                  Get(Get(tool, "custom"), "input_schema"),
                  Get(tool, "parameters"), DefaultSchema>>)

\* Line 210
ToolDescription(tool) ==
    FirstTruthy(<<Get(tool, "description"),
                  Get(Get(tool, "function"), "description"),
                  Get(Get(tool, "custom"), "description"), Str(<<>>)>>)

\* Lines 205-225: the function declaration of the tool at index idx.
FunctionDeclaration(tool, idx) ==
    Obj("name" :> SanitizeName(ToolName(tool, idx))
        @@ "description" :> ToolDescription(tool)
        @@ "parameters" :> sanitizeSchema(ToolSchema(tool)))

\* A content block of a message: the fields the converter reads.  For an
\* image or document block, input holds source.type; for a tool_result
\* block, id holds tool_use_id; for a thinking block, text holds thinking.
Block(type, text, id, name, input) ==
    [type |-> type, text |-> text, id |-> id, name |-> name, input |-> input]

\* A part of a backend content other than text and function call.
PartOfKind(k, id, name) ==
    [k |-> k, text |-> <<>>, thought |-> FALSE, id |-> id, name |-> name,
     args |-> Null]

\* Faulty variant: the function call never carries the id of its block.
ToolUsePartNoId(block, isClaudeModel) ==
    [k |-> "functionCall", text |-> <<>>, thought |-> FALSE, id |-> Null,
     name |-> block.name,
     args |-> IF block.input # Null THEN block.input ELSE EmptyObject]

\* Lines 73-85
ToolUsePart(block, isClaudeModel) ==
    [k |-> "functionCall", text |-> <<>>, thought |-> FALSE,
     id |-> IF isClaudeModel /\ block.id # Null THEN block.id ELSE Null,
     name |-> block.name,
     args |-> IF block.input # Null THEN block.input ELSE EmptyObject]

\* Lines 35-119: the parts of one block, none or one.
BlockParts(block, isClaudeModel) ==
    IF block.type = "text" THEN <<TextPart(block.text, FALSE)>>
    ELSE IF block.type \in {"image", "document"}
    THEN IF block.input = "base64" THEN <<PartOfKind("inlineData", Null, Null)>>
         ELSE IF block.input = "url" THEN <<PartOfKind("fileData", Null, Null)>>
         ELSE <<>>
    ELSE IF block.type = "tool_use" THEN <<ToolUsePart(block, isClaudeModel)>>
    ELSE IF block.type = "tool_result"
    THEN <<PartOfKind("functionResponse",
                      IF isClaudeModel /\ block.id # Null THEN block.id
                      ELSE Null,
                      IF block.id # Null THEN block.id ELSE "unknown")>>
    ELSE IF block.type = "thinking" /\ ~isClaudeModel
    THEN <<TextPart(block.text, TRUE)>>
    ELSE <<>>

RECURSIVE BlocksParts(_, _)
BlocksParts(blocks, isClaudeModel) ==
    IF blocks = <<>> THEN <<>>
    ELSE BlockParts(Head(blocks), isClaudeModel)
         \o BlocksParts(Tail(blocks), isClaudeModel)

\* Lines 23-123.  A content is a string, an array of blocks, or another
\* value, which stands with the text of String(content).
convertContentToParts(content, isClaudeModel) ==
    IF content.t # "blocks" THEN <<TextPart(content.v, FALSE)>>
    ELSE LET parts == BlocksParts(content.v, isClaudeModel)
         IN  IF Len(parts) > 0 THEN parts ELSE <<TextPart(<<>>, FALSE)>>

\* Lines 128-132
convertRole(role) == IF role = "assistant" THEN "model" ELSE "user"

\* constants.js MODEL_MAPPINGS
MODEL_MAPPINGS ==
    [m \in {"claude-3-opus-20240229", "claude-3-5-opus-20240229",
            "claude-3-5-sonnet-20241022", "claude-3-5-sonnet-20240620",
            "claude-3-sonnet-20240229", "claude-sonnet-4-5",
            "claude-sonnet-4-5-thinking", "claude-opus-4-5-thinking"} |->
        IF m \in {"claude-3-opus-20240229", "claude-3-5-opus-20240229",
                  "claude-opus-4-5-thinking"}
        THEN "claude-opus-4-5-thinking"
        ELSE IF m = "claude-sonnet-4-5-thinking"
        THEN "claude-sonnet-4-5-thinking"
        ELSE "claude-sonnet-4-5"]

\* format-converter.js 16-18
mapModelName(anthropicModel) ==
    IF anthropicModel \in DOMAIN MODEL_MAPPINGS
    THEN MODEL_MAPPINGS[anthropicModel] ELSE anthropicModel

\* The model ids of the requests, and which of them read "claude" once in
\* lower case.
ModelIds ==
    {"claude-3-5-sonnet-20241022", "Claude-Opus-4", "gemini-3-pro-high"}

\* Line 145: (model || '').toLowerCase().includes('claude')
IsClaudeModel(model) ==
    Truthy(model)
    /\ model.v \in {"claude-3-5-sonnet-20241022", "Claude-Opus-4"}

\* server.js 149
DEFAULT_MODEL == "claude-3-5-sonnet-20241022"

\* server.js 151
DEFAULT_MAX_TOKENS == "4096"

\* server.js 122-160: the request object the handler builds from the body.
HandlerRequest(b) ==
    Obj([k \in {"model", "messages", "max_tokens", "stream", "system",
                "tools", "tool_choice", "thinking", "top_p", "top_k",
                "temperature"} |->
            IF k = "model"
            THEN FirstTruthy(<<Get(b, k), Scalar(DEFAULT_MODEL)>>)
            ELSE IF k = "max_tokens"
            THEN FirstTruthy(<<Get(b, k), Scalar(DEFAULT_MAX_TOKENS)>>)
            ELSE Get(b, k)])

\* Lines 153-170: the parts of the system instruction.
SystemParts(system) ==
    IF system.t = "arr"
    THEN LET IsText(block) == Get(block, "type") = Scalar("text")
             texts == SelectSeq(system.v, IsText)
         IN  [i \in 1..Len(texts) |-> Obj("text" :> Get(texts[i], "text"))]
    ELSE IF system.t \in {"scalar", "string"}
    THEN <<Obj("text" :> system)>>
    ELSE <<>>

\* Lines 172-180
Contents(msgs, isClaudeModel) ==
    [t |-> "contents",
     v |-> [i \in 1..Len(msgs.v) |->
               [role |-> convertRole(msgs.v[i].role),
                parts |-> convertContentToParts(msgs.v[i].content,
                                                isClaudeModel)]]]

\* Lines 182-197
GenerationConfig(r) ==
    LET stop == Get(r, "stop_sequences")
        src == [k \in {"maxOutputTokens", "temperature", "topP", "topK",
                       "stopSequences"} |->
                   IF k = "maxOutputTokens" THEN Get(r, "max_tokens")
                   ELSE IF k = "temperature" THEN Get(r, "temperature")
                   ELSE IF k = "topP" THEN Get(r, "top_p")
                   ELSE IF k = "topK" THEN Get(r, "top_k")
                   ELSE stop]
        set == {k \in DOMAIN src :
                   IF k = "maxOutputTokens" THEN Truthy(src[k])
                   ELSE IF k = "stopSequences"
                   THEN Truthy(stop) /\ stop.t = "arr" /\ Len(stop.v) > 0
                   ELSE src[k].t # "undefined"}
    IN  Obj([k \in set |-> src[k]])

\* Lines 204-229
Tools(tools) ==
    Arr(<<Obj("functionDeclarations" :>
              Arr([i \in 1..Len(tools.v) |->
                      FunctionDeclaration(tools.v[i], i - 1)]))>>)

\* Lines 143-232
convertAnthropicToGoogle(anthropicRequest) ==
    LET r == anthropicRequest
        isClaudeModel == IsClaudeModel(Get(r, "model"))
        system == Get(r, "system")
        tools == Get(r, "tools")
        hasSystem == Truthy(system) /\ Len(SystemParts(system)) > 0
        hasTools == Truthy(tools) /\ tools.t = "arr" /\ Len(tools.v) > 0
        keys == {"contents", "generationConfig"}
                \cup (IF hasSystem THEN {"systemInstruction"} ELSE {})
                \cup (IF hasTools THEN {"tools"} ELSE {})
    IN  Obj([k \in keys |->
                IF k = "contents"
                THEN Contents(Get(r, "messages"), isClaudeModel)
                ELSE IF k = "generationConfig" THEN GenerationConfig(r)
                ELSE IF k = "systemInstruction"
                THEN Obj("parts" :> Arr(SystemParts(system)))
                ELSE Tools(tools)])

\* '-' + Math.floor(Math.random() * 9e18), 'agent-' + crypto.randomUUID()
RandomSessionId == Scalar("-<random>")

RandomRequestId == Scalar("agent-<uuid>")

\* cloudcode-client.js 111-132: the whole payload.
CloudCodePayload(anthropicRequest, projectId) ==
    LET googleRequest == convertAnthropicToGoogle(anthropicRequest)
    IN  Obj("project" :> Scalar(projectId)
            @@ "model" :> Scalar(mapModelName(
                                     Get(anthropicRequest, "model").v))
            @@ "request" :> Obj(googleRequest.v
                                @@ "sessionId" :> RandomSessionId)
            @@ "userAgent" :> Scalar("antigravity")
            @@ "requestId" :> RandomRequestId)

(***************************************************************************)
(* The specification of the server.                                        *)
(***************************************************************************)
Init ==
    /\ cachedProject = Null
    /\ storeToken = 0
    /\ hpc = "idle"
    /\ isStream = FALSE
    /\ token = 0
    /\ project = Null
    /\ payload = NoPayload
    /\ epIdx = 0
    /\ lastError = NoError
    /\ rfToken = 0
    /\ result = NoResponse
    /\ thrown = NoError
    /\ gp = [c \in Callers |-> IdleFrame]
    /\ events = <<>>
    /\ blockIndex = 0
    /\ bpos = 0
    /\ off = 0
    /\ hlpc = "idle"
    /\ rtpc = "idle"
    /\ messages = Null
    /\ res = NoRes
    /\ disconnected = FALSE
    /\ schema = NoSchema
    /\ sanitized = NoSchema
    /\ body = Undefined
    /\ wrapped = Undefined
    /\ calls = <<>>
    /\ refreshCalls = 0
    /\ gpRet = [c \in Callers |-> NoReturn]

Next ==
    \/ Receive
    \/ SmGetToken
    \/ SmFetch
    \/ RfRefreshToken
    \/ RfGetToken
    \/ GpFetchMsg
    \/ SsMessageStart
    \/ SsBlockStart
    \/ SsTextThrow
    \/ SsTextDelta
    \/ SsTextStop
    \/ SsToolDelta
    \/ SsToolStop
    \/ SsMessageDelta
    \/ SsMessageStop
    \/ Disconnect
    \/ Respond
    \/ StreamError
    \/ MessageError
    \/ MessageErrorRefresh

Spec == Init /\ [][Next]_vars

\* The responses to a generation call whose body holds none of the
\* phrases parseError looks for, or the one that makes an
\* authentication_error.
LiveResponses ==
    {r \in GenResponses : r.text \in {NoText, {"UNAUTHENTICATED"}}}

SmFetchLive == SmFetchOn(LiveResponses)

NextLive ==
    \/ Receive
    \/ SmGetToken
    \/ SmFetchLive
    \/ RfRefreshToken
    \/ RfGetToken
    \/ GpFetchMsg
    \/ SsMessageStart
    \/ SsBlockStart
    \/ SsTextThrow
    \/ SsTextDelta
    \/ SsTextStop
    \/ SsToolDelta
    \/ SsToolStop
    \/ SsMessageDelta
    \/ SsMessageStop
    \/ Disconnect
    \/ Respond
    \/ StreamError
    \/ MessageError
    \/ MessageErrorRefresh

\* The server when every call it awaits returns or fails: the event loop
\* runs the continuation of a settled promise, so a step that can be taken
\* is taken.
SpecLive == Init /\ [][NextLive]_vars /\ WF_vars(NextLive)

(***************************************************************************)
(* The specification of the Project Resolver under its other callers: GET  *)
(* /health resolves the project and POST /refresh-token invalidates the    *)
(* cache and refreshes the credential, in any interleaving.                *)
(***************************************************************************)
NextResolver ==
    \/ Health
    \/ GpFetchHealth
    \/ RtClear
    \/ RtForceRefresh

SpecResolver == Init /\ [][NextResolver]_vars

(***************************************************************************)
(* The specification of concurrent requests racing on the project cache:   *)
(* a non-streaming POST /v1/messages, whose generation calls are answered  *)
(* 401 or 200, runs while GET /health resolves the project and POST        *)
(* /refresh-token invalidates the cache, in any interleaving of their      *)
(* awaits.                                                                 *)
(***************************************************************************)
RaceResponses ==
    {r \in GenResponses :
        /\ r.kind = "http"
        /\ \/ r.status = 401
           \/ r.status = 200 /\ r.data.finishReason = Null}

ReceiveJson == ReceiveOn({"array"}, {FALSE})

SmFetchRace == SmFetchOn(RaceResponses)

\* The discovery responses of the race: the first host names a project,
\* as a string or as an object with an id.
RaceDisc == {r \in DispatchDisc : r.kind = "ok" /\ r.cp.t # "absent"}

GpFetchMsgRace == GpFetchOn("msg", RaceDisc)

GpFetchHealthRace == GpFetchOn("health", RaceDisc)

NextRace ==
    \/ ReceiveJson
    \/ SmGetToken
    \/ GpFetchMsgRace
    \/ SmFetchRace
    \/ RfRefreshToken
    \/ RfGetToken
    \/ Respond
    \/ MessageError
    \/ Health
    \/ GpFetchHealthRace
    \/ RtClear
    \/ RtForceRefresh

SpecRace == Init /\ [][NextRace]_vars

(***************************************************************************)
(* The specification of the Stream Synthesizer alone: sendMessage has just *)
(* returned, from its first generation call, the conversion of any backend *)
(* response of up to MaxParts parts.                                       *)
(***************************************************************************)
SeqsUpTo(S, n) == UNION {[1..k -> S] : k \in 0..n}

BackendResponses ==
    {MkData(ps, fr) : ps \in SeqsUpTo(Parts, MaxParts), fr \in FinishReasons}

InitStream ==
    /\ cachedProject = DEFAULT_PROJECT_ID
    /\ storeToken = 0
    /\ hpc = "sm_returned"
    /\ isStream = TRUE
    /\ token = 0
    /\ project = DEFAULT_PROJECT_ID
    /\ payload = buildCloudCodeRequest(DEFAULT_PROJECT_ID)
    /\ epIdx = 1
    /\ lastError = NoError
    /\ rfToken = 0
    /\ \E d \in BackendResponses :
          /\ result = convertGoogleToAnthropic(d)
          /\ calls = <<MkCall(1, 0, buildCloudCodeRequest(DEFAULT_PROJECT_ID),
                              [kind |-> "http", status |-> 200, data |-> d,
                               text |-> NoText])>>
    /\ thrown = NoError
    /\ gp = [c \in Callers |-> IdleFrame]
    /\ events = <<>>
    /\ blockIndex = 0
    /\ bpos = 0
    /\ off = 0
    /\ hlpc = "idle"
    /\ rtpc = "idle"
    /\ messages = "array"
    /\ res = NoRes
    /\ disconnected = FALSE
    /\ schema = NoSchema
    /\ sanitized = NoSchema
    /\ body = Undefined
    /\ wrapped = Undefined
    /\ refreshCalls = 0
    /\ gpRet = [c \in Callers |-> NoReturn]

NextStream ==
    \/ SsMessageStart
    \/ SsBlockStart
    \/ SsTextThrow
    \/ SsTextDelta
    \/ SsTextStop
    \/ SsToolDelta
    \/ SsToolStop
    \/ SsMessageDelta
    \/ SsMessageStop

SpecStream == InitStream /\ [][NextStream]_vars

(***************************************************************************)
(* The Schema Sanitizer alone: the server before any request, converting   *)
(* the declaration of one tool.                                            *)
(***************************************************************************)
InitSanitize ==
    /\ cachedProject = Null
    /\ storeToken = 0
    /\ hpc = "idle"
    /\ isStream = FALSE
    /\ token = 0
    /\ project = Null
    /\ payload = NoPayload
    /\ epIdx = 0
    /\ lastError = NoError
    /\ rfToken = 0
    /\ result = NoResponse
    /\ thrown = NoError
    /\ gp = [c \in Callers |-> IdleFrame]
    /\ events = <<>>
    /\ blockIndex = 0
    /\ bpos = 0
    /\ off = 0
    /\ hlpc = "idle"
    /\ rtpc = "idle"
    /\ messages = Null
    /\ res = NoRes
    /\ disconnected = FALSE
    /\ calls = <<>>
    /\ refreshCalls = 0
    /\ gpRet = [c \in Callers |-> NoReturn]
    /\ schema \in ToolSchemas
    /\ sanitized = NoSchema
    /\ body = Undefined
    /\ wrapped = Undefined

NextSanitize == SanitizeTool

SpecSanitize == InitSanitize /\ [][NextSanitize]_vars

(***************************************************************************)
(* The Request Builder alone: the bodies of the requests, the payload      *)
(* built from a body, and a backend that answers with the parts of the     *)
(* last content it was sent.                                               *)
(***************************************************************************)
\* The longest tool name of the requests.
MaxNameLen == 66

Pad(c, n) == [i \in 1..n |-> c]

NameLens == {0, 1, NAME_LIMIT - 1, NAME_LIMIT, NAME_LIMIT + 1, MaxNameLen}

\* tool.name as a string: a prefix and n times one character.
NameStrings ==
    {Str(pre \o Pad(c, n)) :
        pre \in {<<>>, <<"g", "e", "t">>, <<"$", " ">>}, c \in {"x", "."},
        n \in NameLens}

\* tool.name of another JSON type.
OtherNames ==
    {Scalar("null"), Scalar("7"), Scalar("true"), Arr(<<>>),
     Arr(<<Str(<<"a">>), Str(<<"b">>)>>), Arr(<<Scalar("null")>>), EmptyObj}

ToolSpecs ==
    {Obj("name" :> n) : n \in NameStrings \cup OtherNames}
    \cup {Obj("function" :> Obj("name" :> n)) :
             n \in {Str(<<"f", "n">>), Str(<<>>)}}
    \cup {EmptyObj,
          Obj("name" :> Str(<<>>)
              @@ "custom" :> Obj("name" :> Str(<<"c", " ">>))),
          Obj("name" :> Str(<<"d">>)
              @@ "input_schema" :>
                  Obj("type" :> Scalar("string")
                      @@ "format" :> Scalar("date")))}

ToolArrays ==
    {Undefined, Arr(<<>>)}
    \cup {Arr(<<tool>>) : tool \in ToolSpecs}
    \cup {Arr(<<EmptyObj, tool>>) :
             tool \in {EmptyObj, Obj("name" :> Str(<<>>)),
                       Obj("name" :> Str(<<"g">>))}}

ContentBlocks ==
    {Block("text", Txt(2), Null, Null, Null),
     Block("tool_use", <<>>, "toolu_1", "toolA", "argsA"),
     Block("tool_use", <<>>, "toolu_2", "toolB", EmptyObject),
     Block("tool_use", <<>>, Null, "toolB", Null),
     Block("tool_result", <<>>, "toolu_1", Null, Null),
     Block("tool_result", <<>>, Null, Null, Null),
     Block("thinking", Txt(1), Null, Null, Null),
     Block("redacted_thinking", <<>>, Null, Null, Null),
     Block("image", <<>>, Null, Null, "base64"),
     Block("document", <<>>, Null, Null, "url"),
     Block("image", <<>>, Null, Null, Null)}

\* The longest content of a message of the requests, in blocks.
MaxBlocks == 2

RECURSIVE BlockSeqs(_)
BlockSeqs(n) ==
    IF n = 0 THEN {<<>>}
    ELSE LET S == BlockSeqs(n - 1)
         IN  S \cup {Append(q, b) : q \in {x \in S : Len(x) = n - 1},
                                    b \in ContentBlocks}

MessageContents ==
    {[t |-> "text", v |-> Txt(3)], [t |-> "other", v |-> Txt(2)]}
    \cup {[t |-> "blocks", v |-> q] : q \in BlockSeqs(MaxBlocks)}

Messages(role, content) ==
    [t |-> "messages", v |-> <<[role |-> role, content |-> content]>>]

JsonNull == Scalar("null")

\* req.body with its fields; a field the body does not have is undefined.
Body(model, msgs, sampling, tools, tool_choice, system) ==
    Obj([k \in {"model", "messages", "max_tokens", "temperature", "top_p",
                "top_k", "stop_sequences", "tools", "tool_choice", "system",
                "stream", "thinking"} |->
            IF k = "model" THEN model
            ELSE IF k = "messages" THEN msgs
            ELSE IF k \in DOMAIN sampling THEN sampling[k]
            ELSE IF k = "tools" THEN tools
            ELSE IF k = "tool_choice" THEN tool_choice
            ELSE IF k = "system" THEN system
            ELSE Undefined])

Samplings ==
    [max_tokens : {Undefined, JsonNull, Scalar("0"), Scalar("1024")},
     temperature : {Undefined, JsonNull, Scalar("0"), Scalar("0.7")},
     top_p : {Undefined, JsonNull, Scalar("0.9")},
     top_k : {Undefined, Scalar("40")},
     stop_sequences : {Undefined, Arr(<<>>), Arr(<<Scalar("END")>>)}]

NoSampling ==
    [max_tokens |-> Scalar("1024"), temperature |-> Undefined,
     top_p |-> Undefined, top_k |-> Undefined, stop_sequences |-> Undefined]

ToolChoices == {Undefined, Obj("type" :> Scalar("auto"))}

Systems ==
    {Undefined, Scalar("sys"), Scalar(""), Arr(<<>>),
     Arr(<<Obj("type" :> Scalar("text") @@ "text" :> Scalar("sys")),
           Obj("type" :> Scalar("image"))>>)}

BodyModels == {Scalar(m) : m \in ModelIds} \cup {Undefined}

UserText == Messages("user", [t |-> "text", v |-> Txt(3)])

FrontendBodies ==
    {Body(Scalar(DEFAULT_MODEL), UserText, sm, Undefined, tc, Undefined) :
        sm \in Samplings, tc \in ToolChoices}
    \cup {Body(Scalar(DEFAULT_MODEL), UserText, NoSampling, tools, tc,
               Undefined) : tools \in ToolArrays, tc \in ToolChoices}
    \cup {Body(model, Messages("assistant", content), NoSampling, Undefined,
               Undefined, Undefined) :
             model \in BodyModels, content \in MessageContents}
    \cup {Body(Scalar(DEFAULT_MODEL), Messages(role, UserText.v[1].content),
               NoSampling, Undefined, Undefined, system) :
             role \in {"user", "tool"}, system \in Systems}

InitConvert ==
    /\ cachedProject = Null
    /\ storeToken = 0
    /\ hpc = "idle"
    /\ isStream = FALSE
    /\ token = 0
    /\ project = Null
    /\ payload = NoPayload
    /\ epIdx = 0
    /\ lastError = NoError
    /\ rfToken = 0
    /\ result = NoResponse
    /\ thrown = NoError
    /\ gp = [c \in Callers |-> IdleFrame]
    /\ events = <<>>
    /\ blockIndex = 0
    /\ bpos = 0
    /\ off = 0
    /\ hlpc = "idle"
    /\ rtpc = "idle"
    /\ messages = Null
    /\ res = NoRes
    /\ disconnected = FALSE
    /\ schema = NoSchema
    /\ sanitized = NoSchema
    /\ body \in FrontendBodies
    /\ wrapped = Undefined
    /\ calls = <<>>
    /\ refreshCalls = 0
    /\ gpRet = [c \in Callers |-> NoReturn]

\* server.js 148-160, cloudcode-client.js 149: the payload of the request.
BuildRequest ==
    /\ body # Undefined
    /\ wrapped = Undefined
    /\ wrapped' = CloudCodePayload(HandlerRequest(body), DEFAULT_PROJECT_ID)
    /\ UNCHANGED <<cachedProject, storeToken, smVars, ssVars, reqVars, gp,
                   gpRet, hlpc, rtpc, schema, sanitized, body>>

\* The parts of the last content of the payload.
LastParts(w) ==
    LET contents == Get(Get(w, "request"), "contents").v
    IN  contents[Len(contents)].parts

\* cloudcode-client.js 195-198: the backend answers with a candidate that
\* holds the parts of the last content, and the answer is converted.
EchoParts ==
    /\ wrapped # Undefined
    /\ calls = <<>>
    /\ \E fr \in {Null, "TOOL_USE"} :
          LET data == MkData(LastParts(wrapped), fr)
          IN  /\ result' = convertGoogleToAnthropic(data)
              /\ calls' = <<MkCall(1, 0, buildCloudCodeRequest(
                                             DEFAULT_PROJECT_ID),
                                   [kind |-> "http", status |-> 200,
                                    data |-> data, text |-> NoText])>>
    /\ UNCHANGED <<cachedProject, storeToken, hpc, isStream, token, project,
                   payload, epIdx, lastError, rfToken, thrown, refreshCalls,
                   ssVars, reqVars, gp, gpRet, hlpc, rtpc, toolVars>>

NextConvert ==
    \/ BuildRequest
    \/ EchoParts

SpecConvert == InitConvert /\ [][NextConvert]_vars

(***************************************************************************)
(* Properties of the Stream Synthesizer.                                   *)
(***************************************************************************)
EventsOfType(t) == {i \in 1..Len(events) : events[i].type = t}

Starts == EventsOfType("content_block_start")

Stops == EventsOfType("content_block_stop")

Deltas == EventsOfType("content_block_delta")

\* Every text block of the response holds a string.
WellTyped(resp) ==
    \A k \in 1..Len(resp.content) :
        resp.content[k].type = "text" => resp.content[k].text # NullText

\* The content_block_start events carry the indices 0, 1, 2, ... in the
\* order of emission, one per block of the response so far.
StartIndicesCount ==
    \A i \in Starts :
        /\ events[i].index = Cardinality({k \in Starts : k < i})
        /\ events[i].index + 1 <= Len(result.content)
        /\ events[i].kind = result.content[events[i].index + 1].type

\* C1: the synthesized sequence starts with the only message_start; the
\* content_block_start indices are 0,1,2,... in block order; when the
\* synthesis is complete the sequence ends with the only message_stop, has
\* one content_block_start per block, and every content_block_start is
\* followed by exactly one content_block_stop of its index.  The synthesis
\* of a response whose text blocks are strings always completes.
C1_StreamFraming ==
    /\ events # <<>> => events[1].type = "message_start"
    /\ Cardinality(EventsOfType("message_start")) <= 1
    /\ StartIndicesCount
    /\ \A j \in Stops : \E i \in Starts : i < j /\ events[i].index = events[j].index
    /\ \A i \in Starts :
          Cardinality({j \in Stops : events[j].index = events[i].index}) <= 1
    /\ EventsOfType("message_stop") \subseteq {Len(events)}
    /\ WellTyped(result) => hpc # "ss_thrown"
    /\ hpc = "ss_done" =>
          /\ Cardinality(EventsOfType("message_start")) = 1
          /\ events[Len(events)].type = "message_stop"
          /\ Cardinality(Starts) = Len(result.content)
          /\ \A i \in Starts :
                /\ Cardinality({j \in Stops :
                                   events[j].index = events[i].index}) = 1
                /\ \E j \in Stops : j > i /\ events[j].index = events[i].index

\* A completed stream of at least two blocks, a text block with deltas and
\* a tool_use block among them.
C1_Witness ==
    /\ hpc = "ss_done"
    /\ Cardinality(Starts) >= 2
    /\ \E i \in Starts : events[i].kind = "tool_use"
    /\ \E i \in Deltas : events[i].kind = "text_delta"

\* The content_block_start that opened the block an event at j lies in: the
\* last one before j, provided no content_block_stop lies between.
OpenBlockAt(j) ==
    {i \in Starts :
        /\ i < j
        /\ \A k \in (i + 1)..(j - 1) :
              events[k].type \notin {"content_block_start", "content_block_stop"}}

\* C7: the events come in the order message_start, then per block of the
\* response, in order, content_block_start, its deltas, content_block_stop,
\* then message_delta, then message_stop: at most one block is open at a
\* time, a delta carries the index (and the kind) of the open block, a
\* tool_use block has exactly one delta, the serialized input, and the only
\* message_delta follows the last content_block_stop, directly precedes
\* message_stop and carries the stop reason.
C7_StreamOrder ==
    LET n == Len(events)
    IN  /\ \A j \in 1..n :
              LET e == events[j]
              IN  /\ (j = 1) <=> (e.type = "message_start")
                  /\ e.type = "content_block_start" =>
                        /\ events[j - 1].type \in
                              {"message_start", "content_block_stop"}
                        /\ e.index = Cardinality({k \in Starts : k < j})
                        /\ e.kind = result.content[e.index + 1].type
                  /\ e.type = "content_block_delta" =>
                        /\ events[j - 1].type \in
                              {"content_block_start", "content_block_delta"}
                        /\ \E i \in OpenBlockAt(j) :
                              /\ events[i].index = e.index
                              /\ e.kind = IF events[i].kind = "text"
                                          THEN "text_delta"
                                          ELSE "input_json_delta"
                  /\ e.type = "content_block_stop" =>
                        /\ events[j - 1].type \in
                              {"content_block_start", "content_block_delta"}
                        /\ \E i \in OpenBlockAt(j) : events[i].index = e.index
                  /\ e.type = "message_delta" =>
                        /\ events[j - 1].type \in
                              {"message_start", "content_block_stop"}
                        /\ Cardinality(Starts) = Len(result.content)
                        /\ e.data = result.stop_reason
                  /\ e.type = "message_stop" =>
                        /\ j = n
                        /\ events[j - 1].type = "message_delta"
        /\ \A j \in 0..n :
              Cardinality({i \in Starts : i <= j})
                  - Cardinality({i \in Stops : i <= j}) \in {0, 1}
        /\ \A i \in Starts :
              (events[i].kind = "tool_use" /\ i + 2 <= n) =>
                 /\ events[i + 1].type = "content_block_delta"
                 /\ events[i + 1].kind = "input_json_delta"
                 /\ events[i + 1].data =
                       <<"json", result.content[events[i].index + 1].input>>
                 /\ events[i + 2].type = "content_block_stop"
        /\ Cardinality(EventsOfType("message_delta")) <= 1
        /\ hpc = "ss_done" =>
              /\ n >= 5
              /\ events[n].type = "message_stop"
              /\ Cardinality(EventsOfType("message_delta")) = 1

\* A completed stream in which a text block of several deltas is followed
\* by a tool_use block.
C7_Witness ==
    /\ hpc = "ss_done"
    /\ \E i \in Starts :
          /\ events[i].kind = "text"
          /\ events[i + 1].type = "content_block_delta"
          /\ events[i + 2].type = "content_block_delta"
          /\ \E j \in Starts : j > i /\ events[j].kind = "tool_use"

\* The text of the deltas of block idx among the first j events, in order.
RECURSIVE DeltaText(_, _)
DeltaText(j, idx) ==
    IF j = 0 THEN <<>>
    ELSE DeltaText(j - 1, idx) \o
         (IF events[j].type = "content_block_delta" /\ events[j].index = idx
          THEN events[j].text ELSE <<>>)

\* ceil(a / b)
CeilDiv(a, b) == (a + b - 1) \div b

\* C8: once a text block of length L is closed, it has produced
\* ceil(L / STREAMING_CHUNK_SIZE) deltas (none when L = 0), each of at most
\* STREAMING_CHUNK_SIZE characters, whose texts concatenate to the text of
\* the block.
C8_TextChunking ==
    \A s \in Stops :
        LET idx == events[s].index
            block == result.content[idx + 1]
            ds == {j \in Deltas : events[j].index = idx}
        IN  block.type = "text" =>
              /\ Cardinality(ds) = CeilDiv(Len(block.text), STREAMING_CHUNK_SIZE)
              /\ \A j \in ds : /\ Len(events[j].text) <= STREAMING_CHUNK_SIZE
                               /\ Len(events[j].text) >= 1
              /\ DeltaText(Len(events), idx) = block.text

\* A completed stream with a text block of three deltas, the last one
\* shorter than a chunk, and an empty text block.
C8_Witness ==
    /\ hpc = "ss_done"
    /\ \E s \in Stops :
          LET idx == events[s].index
          IN  /\ result.content[idx + 1].type = "text"
              /\ Len(result.content[idx + 1].text) > 2 * STREAMING_CHUNK_SIZE
              /\ Len(result.content[idx + 1].text) % STREAMING_CHUNK_SIZE # 0
              /\ Cardinality({j \in Deltas : events[j].index = idx}) = 3
    /\ \E k \in 1..Len(result.content) :
          result.content[k].type = "text" /\ result.content[k].text = <<>>

(***************************************************************************)
(* Properties of the Endpoint Dispatcher, over the generation calls of the *)
(* current dispatch.                                                       *)
(***************************************************************************)
IsSuccess(c) == c.kind = "http" /\ c.status >= 200 /\ c.status <= 299

Is401(c) == c.kind = "http" /\ c.status = 401

\* The place of an endpoint in the priority order.
HostRank(h) ==
    CHOOSE i \in 1..NumEndpoints : ANTIGRAVITY_ENDPOINT_FALLBACKS[i] = h

\* The token sendMessage holds after call i: the one of the next call, or
\* its current token.
TokenAfter(i) == IF i < Len(calls) THEN calls[i + 1].token ELSE token

\* C2 (as claimed): after a 401 and a successful refresh, the next
\* generation call of the dispatch goes to the same host, with the
\* refreshed token and the re-resolved project.
C2_RetrySameHost ==
    \A i \in 1..(Len(calls) - 1) :
        (Is401(calls[i]) /\ calls[i + 1].token # calls[i].token) =>
            /\ calls[i + 1].host = calls[i].host
            /\ calls[i + 1].token > calls[i].token

\* C3: when the first call is answered 401 and the next call, made with
\* the refreshed token, succeeds, the dispatch has refreshed the credential
\* exactly once, and the project of the payload of the successful call is
\* the one getProject resolved, by discovery from an emptied cache, with
\* the refreshed token.
C3_RefreshedProject ==
    (/\ Len(calls) >= 2
     /\ Is401(calls[1])
     /\ IsSuccess(calls[2])
     /\ calls[2].token # calls[1].token) =>
        /\ refreshCalls = 1
        /\ gpRet["msg"].called
        /\ gpRet["msg"].cacheBefore = Null
        /\ gpRet["msg"].n >= 1
        /\ gpRet["msg"].token = calls[2].token
        /\ calls[2].project = gpRet["msg"].val
        /\ payload.project = gpRet["msg"].val

\* The dispatch succeeded at its second call after a 401 and a refresh,
\* and the project resolved after the refresh differs from the first one.
C3_Witness ==
    /\ hpc = "sm_returned"
    /\ Len(calls) = 2
    /\ Is401(calls[1])
    /\ IsSuccess(calls[2])
    /\ calls[2].token # calls[1].token
    /\ calls[2].project # calls[1].project
    /\ calls[1].project \in Projects

\* A call that failed with 429, with another status >= 400 other than 401,
\* or with a transport error.
FailedNoAuth(c) ==
    \/ c.kind = "neterr"
    \/ c.kind = "http" /\ c.status >= 400 /\ c.status # 401

\* The error the dispatcher records for such a call.
RecordedFor(c) ==
    IF c.kind = "neterr" THEN MkError("FetchFailed", 0, c.host)
    ELSE IF c.status = 429
    THEN MkErrorText("RateLimited", 429, c.host, c.text)
    ELSE MkErrorText("ApiError", c.status, c.host, c.text)

C4_NextCall ==
    \A i \in 1..(Len(calls) - 1) :
        FailedNoAuth(calls[i]) =>
            /\ HostRank(calls[i + 1].host) = HostRank(calls[i].host) + 1
            /\ calls[i + 1].token = calls[i].token
            /\ calls[i + 1].project = calls[i].project

C4_TwoRateLimits ==
    (/\ Len(calls) = 3
     /\ calls[1].kind = "http" /\ calls[1].status = 429
     /\ calls[2].kind = "http" /\ calls[2].status = 429
     /\ IsSuccess(calls[3])) =>
        /\ refreshCalls = 0
        /\ calls[3].host = "prod"
        /\ thrown = NoError
        /\ hpc \in {"sm_returned", "ss_block", "ss_text", "ss_tool_delta",
                    "ss_tool_stop", "ss_stop", "ss_done", "ss_thrown"}
        /\ result = convertGoogleToAnthropic(calls[3].data)

C4_Step ==
    (/\ Len(calls') = Len(calls) + 1
     /\ FailedNoAuth(calls'[Len(calls')])) =>
        /\ cachedProject' = cachedProject
        /\ storeToken' = storeToken
        /\ refreshCalls' = refreshCalls
        /\ token' = token
        /\ project' = project
        /\ payload' = payload
        /\ lastError' = RecordedFor(calls'[Len(calls')])
        /\ hpc' = IF Len(calls') < NumEndpoints THEN "sm_fetch" ELSE "sm_thrown"

\* C4: the step that handles a 429, another status >= 400 other than 401
\* or a transport error records the failure and leaves the token, the
\* payload, the credential store and the project cache as they are, making
\* no refresh; the next call goes to the next host with the same token and
\* project; and after 429, 429, success the dispatch has returned the third
\* host's converted response with no refresh made.
C4_FallbackWithoutRefresh ==
    /\ [](C4_NextCall /\ C4_TwoRateLimits)
    /\ [][C4_Step]_vars

\* The dispatch returned from the third host after two rate limits.
C4_Witness ==
    /\ hpc = "sm_returned"
    /\ Len(calls) = 3
    /\ calls[1].status = 429
    /\ calls[2].status = 429
    /\ IsSuccess(calls[3])
    /\ cachedProject # Null

\* C5: a host is called only after every host of higher priority has been
\* called in the dispatch, and a successful call is the last one: the
\* dispatch has returned the conversion of its response.
C5_PriorityOrder ==
    /\ \A i \in 1..Len(calls) :
          \A r \in 1..(HostRank(calls[i].host) - 1) :
              \E j \in 1..(i - 1) :
                  calls[j].host = ANTIGRAVITY_ENDPOINT_FALLBACKS[r]
    /\ \A i \in 1..Len(calls) :
          IsSuccess(calls[i]) =>
              /\ i = Len(calls)
              /\ hpc \notin {"sm_fetch", "rf_refreshToken", "rf_getToken",
                             "rf_getProject", "sm_thrown"}
              /\ thrown = NoError
              /\ result = convertGoogleToAnthropic(calls[i].data)

\* The dispatch returned from autopush after daily failed: prod is not
\* called.
C5_Witness ==
    /\ hpc = "sm_returned"
    /\ Len(calls) = 2
    /\ calls[1].host = "daily"
    /\ calls[2].host = "autopush"
    /\ IsSuccess(calls[2])

AllHostsCalled ==
    \A r \in 1..NumEndpoints :
        \E j \in 1..Len(calls) : calls[j].host = ANTIGRAVITY_ENDPOINT_FALLBACKS[r]

Recorded(i) == ~(Is401(calls[i]) /\ TokenAfter(i) # calls[i].token)

\* The error recorded for a failed call.
ErrorFor(c) ==
    IF c.kind = "neterr" THEN MkError("FetchFailed", 0, c.host)
    ELSE IF c.kind = "badjson" THEN MkError("BodyError", c.status, c.host)
    ELSE IF c.status = 401 THEN MkError("CredentialUnavailable", 0, c.host)
    ELSE IF c.status = 429
    THEN MkErrorText("RateLimited", 429, c.host, c.text)
    ELSE IF c.status >= 400
    THEN MkErrorText("ApiError", c.status, c.host, c.text)
    ELSE MkError("BodyError", c.status, c.host)

HasProject(r) ==
    /\ r.kind = "ok"
    /\ r.cp.t \in {"string", "object"}
    /\ r.cp.v \notin {Null, ""}

\* C9: a call of getProject with an empty cache queries the hosts in
\* priority order from the first, stops at the first response that names a
\* project and returns that project, or returns the default id when all
\* hosts were queried and none named one; the value returned is the value
\* cached.
C9_Discovery ==
    \A c \in Callers :
        /\ gp[c].pc = "fetch" =>
              /\ gp[c].idx = Len(gp[c].queried) + 1
              /\ gp[c].idx <= NumEndpoints
              /\ \A i \in 1..Len(gp[c].queried) :
                    ~HasProject(gp[c].queried[i].resp)
        /\ (gpRet[c].called /\ gpRet[c].cacheBefore = Null) =>
              LET r == gpRet[c]
                  q == r.queried
              IN  /\ r.val # Null
                  /\ r.cacheAfter = r.val
                  /\ r.n >= 1 /\ r.n <= NumEndpoints
                  /\ q # <<>> =>
                        /\ Len(q) = r.n
                        /\ \A i \in 1..r.n :
                              q[i].host = ANTIGRAVITY_ENDPOINT_FALLBACKS[i]
                        /\ \A i \in 1..(r.n - 1) : ~HasProject(q[i].resp)
                        /\ IF HasProject(q[r.n].resp)
                           THEN r.val = q[r.n].resp.cp.v
                           ELSE /\ r.n = NumEndpoints
                                /\ r.val = DEFAULT_PROJECT_ID

\* getProject returned the id field of the second host's project after the
\* first host answered with a non-OK status.
C9_Witness ==
    LET r == gpRet["health"]
    IN  /\ r.called
        /\ r.cacheBefore = Null
        /\ r.n = 2
        /\ r.queried[1].resp.kind = "notok"
        /\ r.queried[2].resp.cp.t = "object"
        /\ r.val = "projB"
        /\ cachedProject = "projB"

\* C10: a call of getProject made while the cache is set returns the
\* cached value with no discovery call and leaves the cache as it is; no
\* discovery is in flight that was started with the cache set.
C10_CacheHit ==
    \A c \in Callers :
        /\ gp[c].pc = "fetch" => gp[c].before = Null
        /\ (gpRet[c].called /\ gpRet[c].cacheBefore # Null) =>
              /\ gpRet[c].val = gpRet[c].cacheBefore
              /\ gpRet[c].cacheAfter = gpRet[c].cacheBefore
              /\ gpRet[c].n = 0
              /\ gpRet[c].queried = <<>>

\* getProject returned the cached project to a caller whose token is not
\* the one the project was discovered with.
C10_Witness ==
    LET r == gpRet["health"]
    IN  /\ r.called
        /\ r.cacheBefore \in Projects
        /\ r.val = r.cacheBefore
        /\ r.token = 2
        /\ cachedProject = r.val

(***************************************************************************)
(* Properties of the POST /v1/messages handler.                            *)
(***************************************************************************)
ErrorTypes ==
    {"authentication_error", "rate_limit_error", "invalid_request_error",
     "permission_error", "api_error"}

C13_Step ==
    (/\ hpc = "idle"
     /\ messages' \in {"missing", "notArray"}
     /\ <<messages, res>>' # <<messages, res>>) =>
        /\ res'.sent
        /\ res'.status = 400
        /\ res'.type = "invalid_request_error"
        /\ hpc' = "idle"
        /\ UNCHANGED <<cachedProject, storeToken, gp, gpRet, calls,
                       refreshCalls, token, events>>

C13_State ==
    messages \in {"missing", "notArray"} =>
        /\ hpc = "idle"
        /\ res.sent /\ res.status = 400 /\ res.type = "invalid_request_error"
        /\ calls = <<>>
        /\ gp["msg"].pc = "idle"

\* C13: a POST /v1/messages whose messages field is missing or no array is
\* answered 400 invalid_request_error in the step that receives it, with
\* no credential fetch, no discovery call and no generation call started,
\* and the project cache and the credential store left as they are.
C13_InvalidBodyRejected == []C13_State /\ [][C13_Step]_vars

\* A body whose messages is no array was rejected while the cache holds
\* the project an earlier request resolved.
C13_Witness ==
    /\ messages = "notArray"
    /\ res.status = 400
    /\ res.type = "invalid_request_error"
    /\ cachedProject \in Projects
    /\ hpc = "idle"

C14_CatchStep ==
    (hpc = "sm_thrown" /\ ~isStream /\ hpc' # hpc) =>
        /\ storeToken' = storeToken
        /\ Len(calls') = 0
        /\ res'.type \in ErrorTypes
        /\ IF res'.type = "authentication_error"
           THEN /\ cachedProject' = Null
                /\ hpc' = "h_forceRefresh"
                /\ ~res'.sent
           ELSE /\ cachedProject' = cachedProject
                /\ hpc' = "idle"
                /\ res'.sent
                /\ res'.recovery = "none"

C14_RefreshStep ==
    (hpc = "h_forceRefresh" /\ hpc' # hpc) =>
        /\ hpc' = "idle"
        /\ cachedProject' = cachedProject
        /\ calls' = calls
        /\ res'.sent /\ ~res.sent
        /\ res'.type = "authentication_error" /\ res'.status = 401
        /\ \/ /\ storeToken' = storeToken + 1
              /\ res'.recovery = "refreshed"
              /\ res'.message = "refreshed_please_retry"
           \/ /\ storeToken' = storeToken
              /\ res'.recovery = "failed"

C14_State ==
    /\ (res.sent /\ res.type \in ErrorTypes) =>
          (res.type = "authentication_error"
              <=> res.recovery \in {"refreshed", "failed"})
    /\ hpc = "h_forceRefresh" =>
          /\ cachedProject = Null
          /\ calls = <<>>
          /\ res.type = "authentication_error"

\* C14: the catch block of the non-streaming path clears the project cache
\* and awaits one forceRefresh() before it sends the response exactly when
\* the error is classified authentication_error; for any other error it
\* answers at once, leaving the cache and the credential as they are; in
\* both cases no further generation call is made.
C14_AuthRecoveryOnce ==
    /\ []C14_State
    /\ [][C14_CatchStep /\ C14_RefreshStep]_vars

\* An authentication error was answered after the cache was cleared and
\* the credential refreshed.
C14_Witness ==
    /\ hpc = "idle"
    /\ res.sent
    /\ res.type = "authentication_error"
    /\ res.recovery = "refreshed"
    /\ cachedProject = Null
    /\ storeToken >= 1

Terminals(w) == {i \in 1..Len(w) : w[i].type \in {"message_stop", "error"}}

C15_State ==
    /\ (res.sent /\ res.type = "stream") =>
          /\ Len(res.written) >= 1
          /\ Terminals(res.written) = {Len(res.written)}
          /\ res.written[Len(res.written)].type = "error" =>
                res.written[Len(res.written)].error \in ErrorTypes
    /\ (isStream /\ hpc \notin {"idle", "ss_done"}) =>
          \A i \in 1..Len(events) : events[i].type # "message_stop"

C15_FailStep ==
    (isStream /\ hpc \in {"sm_thrown", "ss_thrown"} /\ hpc' # hpc) =>
        /\ hpc' = "idle"
        /\ res'.sent
        /\ res'.written[Len(res'.written)].type = "error"
        /\ Len(res'.written) = Len(events) + 1
        /\ UNCHANGED <<cachedProject, storeToken>>
        /\ calls' = <<>>

C15_ClosedStep ==
    (res.sent /\ res.type = "stream" /\ res' # res) =>
        (hpc = "idle" /\ res'.written = <<>>)

\* C15: a streaming response ends with exactly one terminal event, which is
\* its last: message_stop when the synthesis completed, else one error
\* event carrying an error type; once ended nothing is written to it; and
\* the step that handles the failure makes no refresh, no invalidation
\* and no generation call.
C15_OneTerminalEvent ==
    /\ []C15_State
    /\ [][C15_FailStep /\ C15_ClosedStep]_vars

\* A stream that failed in the synthesis, after two events were written.
C15_Witness ==
    /\ res.sent
    /\ res.type = "stream"
    /\ Len(res.written) = 3
    /\ res.written[1].type = "message_start"
    /\ res.written[3].type = "error"
    /\ res.written[3].error = "api_error"

C16_State ==
    /\ hpc \in {"idle", "sm_getToken", "sm_getProject", "sm_fetch",
                "rf_refreshToken", "rf_getToken", "rf_getProject",
                "sm_thrown", "sm_returned", "h_forceRefresh"} =>
          events = <<>>
    /\ events # <<>> =>
          /\ isStream
          /\ calls # <<>>
          /\ IsSuccess(calls[Len(calls)])
          /\ result = convertGoogleToAnthropic(calls[Len(calls)].data)
          /\ events[1].type = "message_start"

C16_FailStep ==
    (isStream /\ hpc = "sm_thrown" /\ hpc' # hpc) =>
        /\ Len(res'.written) = 1
        /\ res'.written[1].type = "error"

\* C16: no event is yielded before sendMessage has returned: while the
\* dispatch runs, and when it has thrown, the generator has yielded
\* nothing; whenever there are events the last generation call succeeded,
\* fullResponse is its conversion and the first event is message_start;
\* the stream of a failed dispatch holds the error event alone.
C16_NoEventBeforeResponse == []C16_State /\ [][C16_FailStep]_vars

\* message_start has been yielded after the third host answered 200.
C16_Witness ==
    /\ hpc = "ss_block"
    /\ Len(events) = 1
    /\ events[1].type = "message_start"
    /\ Len(calls) = 3
    /\ IsSuccess(calls[3])

\* C17 (as claimed): when the error thrown by the dispatch is the one
\* recorded for a 429 response, the client is answered rate_limit_error,
\* with status 429 on the non-streaming path, whatever the text of the
\* body, and the message quotes the reset duration when the body has one.
C17_RateLimitClassified ==
    [][(hpc = "sm_thrown" /\ thrown.kind = "RateLimited" /\ hpc' # hpc) =>
          /\ IF isStream
             THEN res'.written[Len(res'.written)].error = "rate_limit_error"
             ELSE res'.type = "rate_limit_error" /\ res'.status = 429
          /\ "reset" \in thrown.text =>
                res'.message = "rate_limited_reset_after"]_vars

(***************************************************************************)
(* Properties of the project cache under concurrent requests.              *)
(***************************************************************************)
\* Caller c's discovery finishes in this step.
DiscoveryFinishes(c) == gp[c].pc = "fetch" /\ gp'[c].pc = "idle"

\* C11 (as claimed): a cached project stays the cached value until
\* clearProjectCache empties the cache.
C11_CachedUntilInvalidated ==
    [][(cachedProject # Null /\ cachedProject' # cachedProject) =>
          cachedProject' = Null]_vars

C11_Step ==
    /\ cachedProject' # cachedProject =>
          \/ cachedProject' = Null
          \/ \E c \in Callers :
                /\ DiscoveryFinishes(c)
                /\ gp[c].before = Null
                /\ cachedProject' = gpRet'[c].val
    /\ (cachedProject # Null /\ \A c \in Callers : gp[c].pc = "idle") =>
          cachedProject' \in {cachedProject, Null}
    /\ (rtpc = "idle" /\ rtpc' # rtpc) => cachedProject' = Null
    /\ (hpc = "rf_getToken" /\ hpc' = "rf_getProject") =>
          cachedProject' = Null
    /\ \A c \in Callers :
          (gp[c].pc = "idle" /\ gp'[c].pc = "fetch") =>
              /\ cachedProject' = Null
              /\ gp'[c].before = Null
              /\ gp'[c].idx = 1

\* C11 (amended): the cache is emptied by clearProjectCache, from any
\* state, and is set only by a discovery that finishes, one that started
\* while the cache was empty; so a cached project stays the cached value
\* until clearProjectCache is called or a discovery already in flight
\* finishes and overwrites it; and a resolve that finds the cache empty
\* starts discovery at the first host.
C11_CacheLifecycle == [][C11_Step]_vars

\* Both requests discovered a project, and the cache holds the one GET
\* /health wrote over the one the dispatch had cached.
C11_Witness ==
    /\ gpRet["msg"].called /\ gpRet["msg"].n >= 1
    /\ gpRet["health"].called /\ gpRet["health"].n >= 1
    /\ gpRet["msg"].val = "projA"
    /\ gpRet["health"].val = "projB"
    /\ cachedProject = "projB"
    /\ hpc = "sm_fetch"
    /\ calls = <<>>
    /\ rtpc = "idle"

C12_State ==
    /\ \A c \in Callers :
          gpRet[c].called =>
              /\ gpRet[c].val \in Projects \cup {"rising-fact-p41fc"}
              /\ gpRet[c].n <= NumEndpoints
              /\ gpRet[c].n = 0 => gpRet[c].val = gpRet[c].cacheBefore
              /\ gpRet[c].n >= 1 => gpRet[c].cacheBefore = Null
    /\ hpc \in {"sm_fetch", "sm_returned"} =>
          /\ project \in Projects \cup {"rising-fact-p41fc"}
          /\ payload.project = project
          /\ gpRet["msg"].called /\ gpRet["msg"].val = project
    /\ \A i \in 1..Len(calls) :
          calls[i].project \in Projects \cup {"rising-fact-p41fc"}

C12_Step ==
    /\ \A c \in Callers :
          DiscoveryFinishes(c) =>
              /\ gpRet'[c].called
              /\ cachedProject' = gpRet'[c].val
    /\ cachedProject' \notin {cachedProject, Null} =>
          \E c \in Callers : DiscoveryFinishes(c)

Converted == calls # <<>> /\ IsSuccess(calls[Len(calls)]) /\ result # NoResponse

SourceParts == calls[Len(calls)].data.parts

HasFunctionCall == \E i \in 1..Len(SourceParts) : SourceParts[i].k = "functionCall"

\* C18 (as claimed): STOP maps to end_turn and MAX_TOKENS to max_tokens,
\* a response whose finish reason is TOOL_USE or that has a function-call
\* part maps to tool_use, and so every response whose content holds a
\* tool_use block has stop reason tool_use.
C18_StopReasonMapping ==
    Converted =>
        LET fr == calls[Len(calls)].data.finishReason
        IN  /\ (fr = "STOP" /\ ~HasFunctionCall) =>
                  result.stop_reason = "end_turn"
            /\ (fr = "MAX_TOKENS" /\ ~HasFunctionCall) =>
                  result.stop_reason = "max_tokens"
            /\ (fr = "TOOL_USE" \/ HasFunctionCall) =>
                  result.stop_reason = "tool_use"
            /\ (\E j \in 1..Len(result.content) :
                   result.content[j].type = "tool_use") =>
                  result.stop_reason = "tool_use"

\* The source parts that map to a content block: text parts not marked as
\* thought, and function calls.
KeptParts ==
    {i \in 1..Len(SourceParts) :
        \/ SourceParts[i].k = "text" /\ ~SourceParts[i].thought
        \/ SourceParts[i].k = "functionCall"}

\* The j-th of them, in the order of the source.
KeptPart(j) ==
    CHOOSE i \in KeptParts : Cardinality({k \in KeptParts : k <= i}) = j

\* C19: the content of a converted response is never empty; its blocks are
\* those of the parts that map to a block, in the order of the parts; when
\* no part maps to a block it is one text block with the empty text; and a
\* stream that has passed its first block holds a content_block_start.
C19_NonEmptyContent ==
    Converted =>
        LET c == result.content
        IN  /\ Len(c) >= 1
            /\ IF KeptParts = {}
               THEN Len(c) = 1 /\ c[1].type = "text" /\ c[1].text = <<>>
               ELSE /\ Len(c) = Cardinality(KeptParts)
                    /\ \A j \in 1..Len(c) :
                          LET part == SourceParts[KeptPart(j)]
                          IN  IF part.k = "text"
                              THEN c[j].type = "text" /\ c[j].text = part.text
                              ELSE /\ c[j].type = "tool_use"
                                   /\ c[j].name = part.name
                                   /\ part.id # Null => c[j].id = part.id
            /\ hpc \in {"ss_text", "ss_tool_delta", "ss_tool_stop", "ss_stop",
                        "ss_done", "ss_thrown"} => Starts # {}

\* The stream of a response that had only a thought part and an
\* unrecognised part: its one block is the empty text block.
C19_Witness ==
    /\ Converted
    /\ Len(SourceParts) = 2
    /\ KeptParts = {}
    /\ hpc = "ss_done"
    /\ Cardinality(Starts) = 1
    /\ Deltas = {}

(***************************************************************************)
(* Properties of the Schema Sanitizer.                                     *)
(***************************************************************************)
RECURSIVE Clean(_)
\* No denylisted keyword in schema-keyword position at any depth: the keys
\* of properties are names, every other key of an object is a keyword, and
\* the elements of an array-valued field are sub-schemas.
Clean(x) ==
    IF x.t = "scalar"
    THEN TRUE
    ELSE IF x.t = "arr"
    THEN \A i \in 1..Len(x.v) : Clean(x.v[i])
    ELSE /\ DOMAIN x.v \cap UNSUPPORTED_FIELDS = {}
         /\ \A k \in DOMAIN x.v :
               IF k = "properties" /\ x.v[k].t = "obj"
               THEN \A p \in DOMAIN x.v[k].v : Clean(x.v[k].v[p])
               ELSE Clean(x.v[k])

\* C20 (as claimed): the sanitized parameters of a tool hold no denylisted
\* keyword in schema-keyword position at any nesting depth, through
\* properties, items, another object-valued field or an array-valued field.
C20_NoDenylistedKeyword == sanitized # NoSchema => Clean(sanitized)

(***************************************************************************)
(* Properties of the Request Builder.                                      *)
(***************************************************************************)
Built == wrapped # Undefined

\* The function declarations of the payload.
Declarations ==
    LET tools == Get(Get(wrapped, "request"), "tools")
    IN  IF tools.t = "undefined" THEN <<>>
        ELSE Get(tools.v[1], "functionDeclarations").v

\* C21 (as claimed): whatever value a tool has as its name, the name of
\* its function declaration is non-empty, has at most 64 characters, and
\* holds only letters, digits, underscore and hyphen.
C21_ToolNameSanitized ==
    Built =>
        \A i \in 1..Len(Declarations) :
            LET name == Get(Declarations[i], "name")
            IN  /\ name.t = "string"
                /\ Len(name.v) >= 1
                /\ Len(name.v) <= 64
                /\ \A j \in 1..Len(name.v) :
                      name.v[j] \in Letters \cup Digits \cup {"_", "-"}

\* The blocks of the content of the last message of the body.
LastBlocks ==
    LET msgs == Get(body, "messages").v
        content == msgs[Len(msgs)].content
    IN  IF content.t = "blocks" THEN content.v ELSE <<>>

IsToolUse(block) == block.type = "tool_use"

\* The model of the request is of the Claude-compatible family.
ClaudeFamily ==
    LET model == Get(body, "model")
    IN  model.t = "undefined" \/ model.v \in {DEFAULT_MODEL, "Claude-Opus-4"}

\* C22: the tool_use blocks of a content, converted to function-call parts
\* and converted back from a backend response that holds these parts, are
\* tool_use blocks with the same name and the same input (the empty object
\* for a block without input), in the same order; for a model of the
\* Claude-compatible family a block that had an id has the same id.
C22_ToolUseRoundTrip ==
    (Built /\ result # NoResponse) =>
        LET sent == SelectSeq(LastBlocks, IsToolUse)
            back == SelectSeq(result.content, IsToolUse)
        IN  /\ Len(back) = Len(sent)
            /\ \A j \in 1..Len(sent) :
                  /\ back[j].name = sent[j].name
                  /\ back[j].input = IF sent[j].input = Null THEN EmptyObject
                                     ELSE sent[j].input
                  /\ (ClaudeFamily /\ sent[j].id # Null) =>
                        back[j].id = sent[j].id

\* Two tool_use blocks with an id, of a Claude model, have come back.
C22_Witness ==
    /\ Built
    /\ result # NoResponse
    /\ ClaudeFamily
    /\ Len(SelectSeq(LastBlocks, IsToolUse)) = 2
    /\ \A j \in 1..2 : LastBlocks[j].id # Null
    /\ result.content[1].id = "toolu_1"
    /\ result.content[2].id = "toolu_2"

\* A field of the body is set: it is there and is not null (and, for the
\* stop sequences, is not the empty array).
IsSet(x) == x.t # "undefined" /\ x # JsonNull /\ x # Arr(<<>>)

\* C23 (as claimed): the generation config has an entry for temperature,
\* top_p, top_k and stop sequences exactly when the field of the frontend
\* request is set, an entry for max output tokens when it is set (when it
\* is not, the handler's default stands for it), and no entry is null.
C23_GenerationConfigPresent ==
    Built =>
        LET gc == Get(Get(wrapped, "request"), "generationConfig").v
            field == [k \in {"maxOutputTokens", "temperature", "topP", "topK",
                             "stopSequences"} |->
                         IF k = "maxOutputTokens" THEN "max_tokens"
                         ELSE IF k = "temperature" THEN "temperature"
                         ELSE IF k = "topP" THEN "top_p"
                         ELSE IF k = "topK" THEN "top_k"
                         ELSE "stop_sequences"]
        IN  /\ \A k \in DOMAIN field \ {"maxOutputTokens"} :
                  k \in DOMAIN gc <=> IsSet(Get(body, field[k]))
            /\ IsSet(Get(body, "max_tokens")) => "maxOutputTokens" \in DOMAIN gc
            /\ \A k \in DOMAIN gc : gc[k] # JsonNull

RECURSIVE Holds(_, _)
\* The value x is, or holds at some depth, the value y.
Holds(x, y) ==
    \/ x = y
    \/ x.t = "obj" /\ \E k \in DOMAIN x.v : Holds(x.v[k], y)
    \/ x.t = "arr" /\ \E i \in 1..Len(x.v) : Holds(x.v[i], y)

\* C24 (as claimed): the tool-choice directive of the frontend request is
\* in the backend request, unchanged.
C24_ToolChoicePassedThrough ==
    (Built /\ IsSet(Get(body, "tool_choice"))) =>
        Holds(wrapped, Get(body, "tool_choice"))

(***************************************************************************)
(* Properties of a request from its arrival to its response.               *)
(***************************************************************************)
\* C25 (as claimed): once the client of a streaming request has
\* disconnected while its events were being delivered, no further event is
\* produced or written for the request.
C25_NoEventAfterDisconnect ==
    [][(disconnected /\ events # <<>>) =>
          /\ Len(events') <= Len(events)
          /\ (res'.sent /\ ~res.sent) =>
                Len(res'.written) <= Len(events)]_vars

\* Every host was called once, and every call was answered 401.
AllAnswered401 ==
    /\ Len(calls) = NumEndpoints
    /\ \A i \in 1..Len(calls) : Is401(calls[i])

\* C26 (as claimed): when every host answered the generation call with
\* 401, the failure that reaches the client of a non-streaming request is
\* an authentication_error with status 401.
C26_AllUnauthorizedIsAuthError ==
    [][(hpc = "sm_thrown" /\ ~isStream /\ AllAnswered401 /\ hpc' # hpc
        /\ refreshCalls = NumEndpoints /\ lastError = NoError) =>
          res'.type = "authentication_error" /\ res'.status = 401]_vars

\* The step in which refreshToken(), or the getToken() after it, rejects.
CredentialFails ==
    \/ hpc = "rf_refreshToken" /\ hpc' \notin {"rf_refreshToken", "rf_getToken"}
    \/ hpc = "rf_getToken" /\ hpc' \notin {"rf_getToken", "rf_getProject"}

C28_Step ==
    CredentialFails =>
        LET host == ANTIGRAVITY_ENDPOINT_FALLBACKS[epIdx]
        IN  /\ cachedProject' = cachedProject
            /\ payload' = payload
            /\ project' = project
            /\ token' = token
            /\ lastError' = CredentialUnavailable(host)
            /\ calls' = calls
            /\ calls[Len(calls)].host = host
            /\ Is401(calls[Len(calls)])
            /\ epIdx' = epIdx + 1
            /\ IF epIdx < NumEndpoints
               THEN hpc' = "sm_fetch"
               ELSE hpc' = "sm_thrown" /\ thrown' = CredentialUnavailable(host)

\* C28: when the credential refresh, or the token fetch after it, fails
\* while the dispatcher handles a 401, the project cache and the project of
\* the payload stay as they are, the failure is recorded as the failure of
\* that host, and the dispatch goes on with the next host (after the last
\* host it ends with this failure).
C28_RefreshFailureFallsThrough == [][C28_Step]_vars

\* The refresh failed at the first host, and the second host is called
\* with the old token.
C28_Witness ==
    /\ hpc = "sm_fetch"
    /\ epIdx = 2
    /\ Len(calls) = 1
    /\ Is401(calls[1])
    /\ lastError.kind = "CredentialUnavailable"
    /\ token = calls[1].token
    /\ cachedProject # Null

\* The status of an error response of each type.
StatusesOf(type) ==
    IF type = "authentication_error" THEN {401}
    ELSE IF type = "rate_limit_error" THEN {429}
    ELSE IF type = "invalid_request_error" THEN {400}
    ELSE IF type = "permission_error" THEN {403}
    ELSE IF type = "api_error" THEN {500, 503}
    ELSE {}

TerminalTypes == {"message_stop", "error"}

C29_State ==
    /\ hpc # "idle" => ~res.sent
    /\ (hpc = "idle" /\ messages # Null) => res.sent
    /\ res.sent =>
          \/ res.type = "message" /\ res.status = 200 /\ res.written = <<>>
          \/ /\ res.type = "stream"
             /\ res.status = 200
             /\ res.written # <<>>
             /\ res.written[Len(res.written)].type \in TerminalTypes
          \/ res.status \in StatusesOf(res.type) /\ res.written = <<>>

\* A completed response changes only when the next request arrives.
C29_Step ==
    (res.sent /\ res' # res) => (hpc = "idle" /\ res' \in {NoRes, BadRequest})

\* C29: every POST /v1/messages request receives exactly one completed
\* response: while it is handled no response is complete, when its
\* handling is over the response is complete (a JSON message, a JSON error
\* with the status of its type, or an ended event stream), a completed
\* response is not completed again, and the handling of every request is
\* eventually over.
C29_OneCompletedResponse ==
    /\ []C29_State
    /\ [][C29_Step]_vars
    /\ (hpc # "idle") ~> (hpc = "idle" /\ res.sent)

\* A stream that failed after some of its events, ended.
C29_Witness ==
    /\ hpc = "idle"
    /\ res.sent
    /\ res.type = "stream"
    /\ Len(res.written) > 2
    /\ res.written[Len(res.written)].type = "error"

InDispatch ==
    hpc \in {"sm_getToken", "sm_getProject", "sm_fetch", "rf_refreshToken",
             "rf_getToken", "rf_getProject"}

DispatchOver == hpc \in {"sm_returned", "sm_thrown"}

CallsTo(h) == {i \in 1..Len(calls) : calls[i].host = h}

C30_Bounds ==
    /\ \A i \in 1..NumEndpoints :
          LET h == ANTIGRAVITY_ENDPOINT_FALLBACKS[i]
          IN  /\ Cardinality(CallsTo(h)) <= 2
              /\ Cardinality({j \in CallsTo(h) : Is401(calls[j])}) <= 1
    /\ Len(calls) <= 2 * NumEndpoints
    /\ refreshCalls <= NumEndpoints
    /\ refreshCalls <= Cardinality({j \in 1..Len(calls) : Is401(calls[j])})

\* C30: a dispatch issues at most two generation calls per host and at
\* most one credential refresh per host (one for a call answered 401), so
\* at most 2N calls and N refreshes for N hosts, and it eventually returns
\* a response or fails.
C30_DispatchTerminates ==
    /\ []C30_Bounds
    /\ InDispatch ~> DispatchOver

\* A dispatch that has failed after every host answered 401 and the
\* credential was refreshed each time.
C30_Witness ==
    /\ hpc = "sm_thrown"
    /\ Len(calls) = NumEndpoints
    /\ refreshCalls = NumEndpoints
    /\ thrown = AllEndpointsFailed

\* C27 (as claimed): when the dispatch has refreshed the credential,
\* invalidated the cache and resolved the project again with the refreshed
\* token, so that the cache holds that project, a discovery that GET
\* /health started before with the old token does not overwrite the cache
\* when it finishes.
C27_StaleDiscoveryCannotOverwrite ==
    [][(/\ DiscoveryFinishes("health")
        /\ gp["health"].token < token
        /\ refreshCalls >= 1
        /\ hpc = "sm_fetch"
        /\ gpRet["msg"].called
        /\ gpRet["msg"].n >= 1
        /\ gpRet["msg"].token = token
        /\ cachedProject = gpRet["msg"].val) =>
          cachedProject' = cachedProject]_vars

\* C31 (as claimed): a non-empty stop_sequences value in the body of POST
\* /v1/messages is in the generation config of the payload sent to the
\* backend for that request, with the same stop sequences.
C31_StopSequencesReachBackend ==
    LET stop == Get(body, "stop_sequences")
    IN  (Built /\ stop.t = "arr" /\ Len(stop.v) > 0) =>
            LET gc == Get(Get(wrapped, "request"), "generationConfig").v
            IN  "stopSequences" \in DOMAIN gc /\ gc["stopSequences"] = stop

====
